---- MODULE Spec2Model ----
(***************************************************************************)
(* Camera navigation and animation orchestration of the Helsinki viewer:   *)
(* the AutoTourManager and its host timers, the InteractionManager and the *)
(* POI transition it interrupts.                                           *)
(*                                                                         *)
(* Time is counted in milliseconds and advances in steps of TickMs; every  *)
(* delay of the program is a multiple of it.  A host timer (setTimeout)    *)
(* fires when its remaining time is 0, before time advances further.       *)
(***************************************************************************)
EXTENDS Integers, Sequences, FiniteSets, TLC

VARIABLES
    \* ---- AutoTourManager fields
    enabled,                  \* public enabled
    currentIndex,             \* public currentIndex
    poiSequence,              \* readonly poiSequence (constructor config)
    inactivityTimeout,        \* readonly inactivityTimeout (constructor config)
    finalPoiPause,            \* readonly finalPoiPause (constructor config)
    isWaitingForNextPOI,      \* private isWaitingForNextPOI
    timeout,                  \* private timeout: handle of the last tour timer
    inactivityTimer,          \* private inactivityTimer: handle
    timeSinceLastInteraction, \* Date.now() - lastInteractionTime, capped
    \* ---- host timer facility (window.setTimeout / clearTimeout)
    timers,                   \* id -> pending timer (or NoTimer)
    \* ---- observation of the manager's callers
    disposed,                 \* dispose() has returned
    lastFire,                 \* what the last step's timer callback did
    tour,                     \* the tour driver's bookkeeping (visits, resumes)
    \* ---- camera and controls
    cameraPosition,           \* camera.position
    cameraDirection,          \* camera.getWorldDirection(), not normalised
    target,                   \* controls.target
    \* ---- animation states
    clock,                    \* the render loop's current time, ms
    cinematicAnimation,       \* CinematicAnimationState | null
    poiTransition,            \* POITransitionState | null
    highlightedPOI,           \* POIHighlightManager.highlightedPOI, or "null"
    highlightedMeshes,        \* POIHighlightManager.highlightedMeshes.size
    \* ---- DOM element and input
    listeners,                \* the listeners registered on the DOM element
    userInteracting,          \* CameraInteractionListeners.userInteracting
    isDragging,               \* DragControls.isDragging
    interactionDisposed,      \* InteractionManager.dispose() has returned
    controllerDisposed,       \* HelsinkiCameraController.dispose() has returned
    lastCall,                 \* what the last step's call did
    \* ---- DragControls
    velocity,                 \* DragControls.velocity (pan momentum)
    rotationVelocity,         \* DragControls.rotationVelocity
    lastMouseX,               \* DragControls.lastMouseX
    lastMouseY,               \* DragControls.lastMouseY
    boundingBox,              \* DragControls.boundingBox, or NoBox
    dragConfig,               \* DragControls configuration (constructor)
    gesture,                  \* observation: the pointer gestures so far
    \* ---- HelsinkiCameraController
    controls,                 \* the controller's backends (cameraControls, orbit)
    baseCameraPosition,       \* HelsinkiCameraController.baseCameraPosition
    cameraTargetPosition,     \* HelsinkiCameraController.cameraTargetPosition
    \* ---- HelsinkiScene
    idleRotation,             \* IdleRotationState | null
    helsinkiModel,            \* the city model is loaded
    frame,                    \* observation: what the last frame tick did
    \* ---- BoundaryEasing
    easing                    \* a calculateGeneric call: arguments and result

config == << poiSequence, inactivityTimeout, finalPoiPause >>

tourVars == << enabled, currentIndex, poiSequence, inactivityTimeout,
               finalPoiPause, isWaitingForNextPOI, timeout, inactivityTimer,
               timeSinceLastInteraction, timers, disposed, lastFire, tour >>

interactVars == << cameraPosition, cameraDirection, target, clock,
                   cinematicAnimation, poiTransition, highlightedPOI,
                   highlightedMeshes, listeners,
                   userInteracting, isDragging, interactionDisposed,
                   controllerDisposed, lastCall >>

rigVars == << velocity, rotationVelocity, lastMouseX, lastMouseY, boundingBox,
              dragConfig, gesture, controls, baseCameraPosition,
              cameraTargetPosition, idleRotation, helsinkiModel, frame, easing >>

vars == << tourVars, interactVars, rigVars >>

-----------------------------------------------------------------------------
(* Program constants (milliseconds) *)

StartDelayMs == 1500
ScheduleDelayMs == 1500
DefaultInactivityTimeoutMs == 8000
DefaultFinalPoiPauseMs == 3000
GraceDelayMs == 500

\* the resolution of the model's clock: the smallest delay of the program
TickMs == GraceDelayMs

(* Bounds of the model *)

MaxTimers == 3      \* host timers pending at once
MaxPOIs == 3        \* length of the configured poiSequence
MaxOverrun == 1     \* advance() calls accepted past the end of the sequence

POIs == {"A", "B", "C", "D"}

Range(f) == { f[i] : i \in DOMAIN f }

Min(a, b) == IF a < b THEN a ELSE b
Max(a, b) == IF a > b THEN a ELSE b

-----------------------------------------------------------------------------
(* Host timers *)

NullHandle == 0       \* this.timeout = null
StaleHandle == -1     \* the id of a timer that has already fired: truthy, and
                      \* clearTimeout on it does nothing

NoTimer == [kind |-> "none", rem |-> 0, cancelled |-> FALSE]

TimerIds == 1 .. MaxTimers

Pending(ts) == { i \in DOMAIN ts : ts[i].kind # "none" }

HasFreeId(ts) == \E i \in DOMAIN ts : ts[i].kind = "none"

FreeId(ts) == CHOOSE i \in DOMAIN ts :
                 /\ ts[i].kind = "none"
                 /\ \A j \in DOMAIN ts : ts[j].kind = "none" => i <= j

\* window.setTimeout(callback, delay): the timers after the call
setTimeout(ts, kind, delay) ==
    [ts EXCEPT ![FreeId(ts)] = [kind |-> kind, rem |-> delay, cancelled |-> FALSE]]

\* clearTimeout(handle)
clearTimeout(ts, h) ==
    IF h \in DOMAIN ts THEN [ts EXCEPT ![h] = NoTimer] ELSE ts

\* a handle after the timer with id i has fired
AfterFire(h, i) == IF h = i THEN StaleHandle ELSE h

TourKinds == {"start", "next", "completion", "grace"}

\* the callback a tour timer invokes
CallbackOf(kind) ==
    CASE kind = "start" -> "onFlyToNext"
      [] kind = "next" -> "onFlyToNext"
      [] kind = "completion" -> "onRestart"
      [] kind = "grace" -> "onResume"
      [] OTHER -> "none"

\* a pending timer whose owning state has changed: stop() or dispose() ran
\* after it was scheduled, or a newer tour timer took its handle
IsStale(i) ==
    \/ timers[i].cancelled
    \/ timers[i].kind \in TourKinds /\ timeout # i

NoFire == [cb |-> "none", kind |-> "none", stale |-> FALSE, cancelled |-> FALSE,
           changed |-> FALSE]

-----------------------------------------------------------------------------
(* AutoTourManager: pure accessors *)

isComplete(idx) == idx >= Len(poiSequence)

getNextPOI(idx) == IF idx >= Len(poiSequence) THEN "null" ELSE poiSequence[idx + 1]

isWaiting == isWaitingForNextPOI

\* what the tour's driver has seen: the visits (focusPOI calls) with the time
\* between them, and the interruption / resume protocol
NoTour == [started |-> FALSE,
           visited |-> "null",     \* the POI of the last visit
           justVisited |-> FALSE,  \* the last step was a visit
           pos |-> 0,              \* its place in poiSequence (1-based), 0: none yet
           prevPos |-> 0,          \* the place of the visit before it
           gap |-> 0,              \* ms between it and the visit (or start) before
           sinceVisit |-> 0,       \* ms since the last visit (or start), capped
           armed |-> FALSE,        \* stop() + startInactivityTimer() were called
           recorded |-> FALSE,     \* recordInteraction() was called since
           sinceInput |-> 0,       \* ms since the last of these calls, capped
           idxAtStop |-> 0,        \* currentIndex when stop() was called
           resumes |-> 0,          \* onResume invocations since, capped at 2
           resumeAt |-> 0,         \* sinceInput at the first of them
           idxAtResume |-> 0,      \* currentIndex at the first of them
           enabledAtResume |-> FALSE]

\* the sequences of distinct POIs a tour can be configured with
Sequences == { s \in UNION { [1 .. n -> POIs] : n \in 1 .. MaxPOIs } :
                 \A i, j \in DOMAIN s : i # j => s[i] # s[j] }

\* the state after construction with the given configuration
Constructed(seqs, timeoutsMs, pausesMs) ==
    /\ enabled = TRUE
    /\ currentIndex = 0
    /\ poiSequence \in seqs
    /\ inactivityTimeout \in timeoutsMs
    /\ finalPoiPause \in pausesMs
    /\ isWaitingForNextPOI = FALSE
    /\ timeout = NullHandle
    /\ inactivityTimer = NullHandle
    /\ timeSinceLastInteraction = inactivityTimeout
    /\ timers = [i \in TimerIds |-> NoTimer]
    /\ disposed = FALSE
    /\ lastFire = NoFire
    /\ tour = NoTour

-----------------------------------------------------------------------------
(* AutoTourManager: the methods, as functions of the manager's state *)

Mgr == [enabled |-> enabled, currentIndex |-> currentIndex,
        isWaitingForNextPOI |-> isWaitingForNextPOI, timeout |-> timeout,
        inactivityTimer |-> inactivityTimer,
        since |-> timeSinceLastInteraction, timers |-> timers]

SetMgr(m) ==
    /\ enabled' = m.enabled
    /\ currentIndex' = m.currentIndex
    /\ isWaitingForNextPOI' = m.isWaitingForNextPOI
    /\ timeout' = m.timeout
    /\ inactivityTimer' = m.inactivityTimer
    /\ timeSinceLastInteraction' = m.since
    /\ timers' = m.timers

\* observation only: the tour timers still pending when stop() or dispose()
\* returns are the ones whose owning state has changed
MarkCancelled(ts) ==
    [i \in DOMAIN ts |->
        IF ts[i].kind # "none" THEN [ts[i] EXCEPT !.cancelled = TRUE] ELSE ts[i]]

start(m) ==
    [m EXCEPT !.currentIndex = 0,
              !.isWaitingForNextPOI = TRUE,
              !.timers = setTimeout(m.timers, "start", StartDelayMs),
              !.timeout = FreeId(m.timers)]

stop(m) ==
    LET cleared == IF m.timeout # NullHandle
                   THEN [m EXCEPT !.timers = clearTimeout(m.timers, m.timeout),
                                  !.timeout = NullHandle]
                   ELSE m
    IN [cleared EXCEPT !.enabled = FALSE,
                       !.isWaitingForNextPOI = FALSE,
                       !.timers = [i \in DOMAIN cleared.timers |->
                                     IF cleared.timers[i].kind \in TourKinds
                                     THEN [cleared.timers[i] EXCEPT !.cancelled = TRUE]
                                     ELSE cleared.timers[i]]]

advance(m) == [m EXCEPT !.currentIndex = @ + 1]

reset(m) == [m EXCEPT !.currentIndex = 0]

scheduleNext(m, delay) ==
    IF ~m.enabled
    THEN [m EXCEPT !.isWaitingForNextPOI = FALSE]
    ELSE [m EXCEPT !.isWaitingForNextPOI = TRUE,
                   !.timers = setTimeout(m.timers, "next", delay),
                   !.timeout = FreeId(m.timers)]

handleCompletion(m) ==
    [m EXCEPT !.isWaitingForNextPOI = TRUE,
              !.timers = setTimeout(m.timers, "completion", finalPoiPause),
              !.timeout = FreeId(m.timers)]

clearInactivityTimer(m) ==
    IF m.inactivityTimer # NullHandle
    THEN [m EXCEPT !.timers = clearTimeout(m.timers, m.inactivityTimer),
                   !.inactivityTimer = NullHandle]
    ELSE m

startInactivityTimer(m) ==
    LET c == clearInactivityTimer(m)
    IN [c EXCEPT !.since = 0,
                 !.timers = setTimeout(c.timers, "inactivity", inactivityTimeout),
                 !.inactivityTimer = FreeId(c.timers)]

recordInteraction(m) == [m EXCEPT !.since = 0]

setWaiting(m, waiting) == [m EXCEPT !.isWaitingForNextPOI = waiting]

dispose(m) ==
    LET cleared == IF m.timeout # NullHandle
                   THEN [m EXCEPT !.timers = clearTimeout(m.timers, m.timeout),
                                  !.timeout = NullHandle]
                   ELSE m
        c == clearInactivityTimer(cleared)
    IN [c EXCEPT !.timers = MarkCancelled(c.timers)]

(* The timer callbacks: the manager's state when the callback hands over to  *)
(* the caller's onFlyToNext / onRestart / onResume.  Fired(m, i) is the host *)
(* removing the timer that fires.                                            *)

Fired(m, i) ==
    [m EXCEPT !.timers = [m.timers EXCEPT ![i] = NoTimer],
              !.timeout = AfterFire(m.timeout, i),
              !.inactivityTimer = AfterFire(m.inactivityTimer, i)]

startCallback(m) == [m EXCEPT !.isWaitingForNextPOI = FALSE]

scheduleNextCallback(m) == [m EXCEPT !.isWaitingForNextPOI = FALSE]

\* a completion callback that forgets this.reset()
handleCompletionCallbackNoReset(m) == [m EXCEPT !.isWaitingForNextPOI = FALSE]

handleCompletionCallback(m) ==
    [reset(m) EXCEPT !.isWaitingForNextPOI = FALSE]

resumeCallback(m) == [m EXCEPT !.isWaitingForNextPOI = FALSE]

\* an inactivity callback that resumes a completed tour without this.reset()
inactivityCallbackNoReset(m) ==
    IF m.since >= inactivityTimeout
    THEN LET r == [m EXCEPT !.enabled = TRUE, !.isWaitingForNextPOI = TRUE]
         IN [r EXCEPT !.timers = setTimeout(r.timers, "grace", GraceDelayMs),
                      !.timeout = FreeId(r.timers)]
    ELSE m

inactivityCallback(m) ==
    IF m.since >= inactivityTimeout
    THEN LET r == [m EXCEPT !.enabled = TRUE, !.isWaitingForNextPOI = TRUE]
             s == IF isComplete(r.currentIndex) THEN reset(r) ELSE r
         IN [s EXCEPT !.timers = setTimeout(s.timers, "grace", GraceDelayMs),
                      !.timeout = FreeId(s.timers)]
    ELSE m

timerCallback(m, i) ==
    LET k == m.timers[i].kind
        f == Fired(m, i)
    IN CASE k = "start" -> startCallback(f)
         [] k = "next" -> scheduleNextCallback(f)
         [] k = "completion" -> handleCompletionCallback(f)
         [] k = "grace" -> resumeCallback(f)
         [] k = "inactivity" -> inactivityCallback(f)

-----------------------------------------------------------------------------
(* Camera, controls target and vectors.  Coordinates are integers; a length  *)
(* is the integer part of the Euclidean length.                              *)

MinTargetY == 10          \* the floor of the handoff target's height

MaxClockTicks == 4        \* render-loop time modelled, in ticks

Vec(x, y, z) == [x |-> x, y |-> y, z |-> z]

VSub(a, b) == Vec(a.x - b.x, a.y - b.y, a.z - b.z)

LengthSq(v) == v.x * v.x + v.y * v.y + v.z * v.z

RECURSIVE ISqrtIn(_, _, _)
ISqrtIn(n, lo, hi) ==
    IF lo >= hi THEN lo
    ELSE LET mid == (lo + hi + 1) \div 2
         IN IF mid * mid <= n THEN ISqrtIn(n, mid, hi) ELSE ISqrtIn(n, lo, mid - 1)

ISqrt(n) == ISqrtIn(n, 0, Min(n, 46340))

\* Vector3.distanceTo
distanceTo(a, b) == ISqrt(LengthSq(VSub(a, b)))

Abs(a) == IF a < 0 THEN -a ELSE a

\* Every arithmetic operation on a coordinate rounds its result to the
\* nearest number with Precision significant bits, ties to the even one
\* (a JavaScript number keeps 53 bits).
Precision == 11

RECURSIVE UlpOf(_)
UlpOf(a) == IF a < 2 ^ Precision THEN 1 ELSE 2 * UlpOf(a \div 2)

fl(x) ==
    LET a == Abs(x)
        u == UlpOf(a)
        q == a \div u
        r == a % u
        m == IF 2 * r > u \/ (2 * r = u /\ q % 2 = 1) THEN (q + 1) * u ELSE q * u
    IN IF x < 0 THEN -m ELSE m

\* v1 + (v2 - v1) * alpha, one coordinate, alpha = num / den
lerp(a, b, num, den) == fl(a + fl((fl(b - a) * num) \div den))

\* Vector3.lerpVectors(v1, v2, alpha) with alpha = num / den
lerpVectors(v1, v2, num, den) ==
    Vec(lerp(v1.x, v2.x, num, den),
        lerp(v1.y, v2.y, num, den),
        lerp(v1.z, v2.z, num, den))

\* camera.lookAt(t): the camera faces t (its facing is kept when t is the
\* camera's own position)
lookAt(pos, dir, t) == IF t = pos THEN dir ELSE VSub(t, pos)

Origin == Vec(0, 0, 0)

\* camera poses at construction; the controls target starts at the origin
CameraStarts == { Vec(0, 48, 96), Vec(0, 16, 32), Vec(4090, 48, 0) }

\* targets given to setTarget()
TargetInputs == { Vec(32, 16, 0) }

-----------------------------------------------------------------------------
(* POI transition (animation/poiTransition) *)

\* POINTS_OF_INTEREST[p].worldCoords
WorldCoords(p) ==
    CASE p = "A" -> Vec(32, 0, -32)
      [] p = "B" -> Vec(-32, 0, 32)
      [] p = "C" -> Vec(0, 16, 0)
      [] OTHER -> Vec(-32, 0, -32)

\* sine and cosine of an angle in degrees, in fifths (37 stands for the angle
\* whose sine is 3/5)
Sin5(deg) == CASE deg = 0 -> 0 [] deg = 37 -> 3 [] deg = 90 -> 5 [] OTHER -> 0
Cos5(deg) == CASE deg = 0 -> 5 [] deg = 37 -> 4 [] deg = 90 -> 0 [] OTHER -> 5

NoTransition ==
    [exists |-> FALSE, isAnimating |-> FALSE, startTime |-> 0, duration |-> 0,
     startPosition |-> Origin, startTarget |-> Origin,
     targetPosition |-> Origin, targetLookAt |-> Origin,
     generation |-> 0,         \* observation: transitions created so far
     completions |-> 0,        \* observation: onComplete invocations
     interrupted |-> FALSE,    \* observation: interrupted while animating
     cleared |-> FALSE]        \* observation: highlights cleared at the interrupt

\* (camera position, currentTarget, poiWorldCoords, distance, azimuth,
\* elevation, duration, currentTime; gen counts the transitions created)
createPOITransition(pos, currentTarget, poi, distance, azimuth, elevation, duration, currentTime, gen) ==
    LET horizontalDistance == (distance * Cos5(elevation)) \div 5
        targetX == poi.x + (horizontalDistance * Cos5(azimuth)) \div 5
        targetZ == poi.z + (horizontalDistance * Sin5(azimuth)) \div 5
        targetY == poi.y + (distance * Sin5(elevation)) \div 5
    IN [exists |-> TRUE, isAnimating |-> TRUE, startTime |-> currentTime,
        duration |-> duration,
        startPosition |-> pos, startTarget |-> currentTarget,
        targetPosition |-> Vec(targetX, targetY, targetZ),
        targetLookAt |-> poi,
        generation |-> gen,
        completions |-> 0, interrupted |-> FALSE, cleared |-> FALSE]

\* easeInOutCubic(e / d) as a fraction: numerator over EaseDen(d)
EaseDen(d) == 2 * d * d * d

easeInOutCubic(e, d) ==
    IF 2 * e < d
    THEN 8 * e * e * e
    ELSE EaseDen(d) - (2 * d - 2 * e) * (2 * d - 2 * e) * (2 * d - 2 * e)

\* updatePOITransition(transition, camera, controls, currentTime): the
\* transition, camera position, camera facing, controls target and return
\* value after the call
\* the camera put at newPos and turned to currentTarget; done: progress >= 1
transitionMoved(tr, dir, newPos, currentTarget, done) ==
    [transition |-> IF done
                    THEN [tr EXCEPT !.isAnimating = FALSE,
                                    !.completions = Min(@ + 1, 2)]
                    ELSE tr,
     position |-> newPos,
     direction |-> lookAt(newPos, dir, currentTarget),
     target |-> currentTarget,
     ret |-> ~done,
     completed |-> done]

\* the transition at progress e / d, eased to num / den
transitionEased(tr, dir, num, den, done) ==
    transitionMoved(tr, dir,
                    lerpVectors(tr.startPosition, tr.targetPosition, num, den),
                    lerpVectors(tr.startTarget, tr.targetLookAt, num, den),
                    done)

\* progress = min(elapsed / duration, 1) = e / d
transitionAt(tr, dir, e, d) ==
    transitionEased(tr, dir, easeInOutCubic(e, d), EaseDen(d), e >= d)

updatePOITransition(tr, pos, dir, tgt, currentTime) ==
    IF ~tr.isAnimating
    THEN [transition |-> tr, position |-> pos, direction |-> dir, target |-> tgt,
          ret |-> FALSE, completed |-> FALSE]
    ELSE transitionAt(tr, dir,
                      Min((currentTime - tr.startTime) \div TickMs, tr.duration \div TickMs),
                      tr.duration \div TickMs)

\* a cancel that leaves the transition animating
cancelPOITransitionNoOp(tr) == tr

cancelPOITransition(tr) ==
    IF tr.exists THEN [tr EXCEPT !.isAnimating = FALSE] ELSE tr

-----------------------------------------------------------------------------
(* InteractionManager and the camera controller's listeners *)

NoCinematic == [exists |-> FALSE, isPlaying |-> FALSE, startTime |-> 0]

ManagerEvents == {"pointerdown", "touchstart", "wheel"}

Listener(o, t, h) == [owner |-> o, type |-> t, handler |-> h]

\* InteractionManager.setupEventListeners: one anonymous listener per event
ManagerListeners ==
    { Listener("InteractionManager", t, "handleInteraction") : t \in ManagerEvents }

\* CameraInteractionListeners.setup
ControllerListeners ==
    { Listener("CameraInteractionListeners", "pointerdown", "handlePointerDown"),
      Listener("CameraInteractionListeners", "pointermove", "handlePointerMove"),
      Listener("CameraInteractionListeners", "pointerup", "handlePointerUp"),
      Listener("CameraInteractionListeners", "pointerleave", "handlePointerUp"),
      Listener("CameraInteractionListeners", "wheel", "handleWheel"),
      Listener("CameraInteractionListeners", "wheel", "handleWheelInteraction"),
      Listener("CameraInteractionListeners", "touchstart", "handleTouchStart"),
      Listener("CameraInteractionListeners", "touchend", "handlePointerUp") }

EventTypes == { l.type : l \in ManagerListeners \cup ControllerListeners }

\* mouse buttons of a pointer event: 0 is the primary button
Buttons == {0, 2}

\* the handlers the element runs for an event of type t
Handlers(ls, t) == { l.handler : l \in { k \in ls : k.type = t } }

\* InteractionManager.dispose(): the listeners on the element afterwards
disposeInteractionManager(ls) == ls

\* CameraInteractionListeners.dispose()
disposeListeners(ls) == ls \ ControllerListeners

NoCall == [op |-> "none", ret |-> FALSE, posBefore |-> Origin,
           targetBefore |-> Origin, completed |-> FALSE, cleared |-> FALSE,
           onInterrupt |-> FALSE, interactingBefore |-> FALSE,
           draggingBefore |-> FALSE,
           interrupts |-> 0,     \* interrupts performed so far
           \* of a call that looks a name up: whether the name is a key of the
           \* table, whether the call threw, and the camera's facing and the
           \* highlight before it
           known |-> TRUE, threw |-> FALSE, dirBefore |-> Origin,
           highlightBefore |-> "null", meshesBefore |-> 0]

\* the call op made from the present state
CallOf(op) == [NoCall EXCEPT !.op = op,
                             !.posBefore = cameraPosition,
                             !.targetBefore = target,
                             !.interactingBefore = userInteracting,
                             !.draggingBefore = isDragging,
                             !.interrupts = lastCall.interrupts]

\* POIHighlightManager.clearHighlights: the highlighted POI afterwards
clearHighlights(poi, meshes) == IF meshes = 0 THEN poi ELSE "null"

\* Names given to focusPOI, applyCameraPreset and highlightPOI that are no key
\* of POINTS_OF_INTEREST or CAMERA_PRESETS.  Both tables are object literals:
\* table[name] is undefined for a name like "NOWHERE", and the member
\* inherited from Object.prototype for a name like "constructor".
UnknownNames == {"NOWHERE", "constructor"}

InheritedNames == {"constructor"}

PresetNames == {"CINEMATIC_END", "BIRDS_EYE"}

\* a CameraConfig: target and polar placement.  A member the object lacks is
\* undefined: new THREE.Vector3(undefined, undefined, undefined) is the origin
NoConfig == [target |-> Origin, hasPolar |-> FALSE,
             distance |-> 0, azimuth |-> 0, elevation |-> 0]

PolarConfig(t, distance, azimuth, elevation) ==
    [target |-> t, hasPolar |-> TRUE,
     distance |-> distance, azimuth |-> azimuth, elevation |-> elevation]

\* CAMERA_PRESETS[name], at the model's scale
CameraPreset(name) ==
    CASE name = "CINEMATIC_END" -> PolarConfig(Vec(32, 16, -32), 40, 90, 0)
      [] name = "BIRDS_EYE" -> PolarConfig(Origin, 80, 0, 37)
      [] OTHER -> NoConfig

polarToCartesian(t, distance, azimuthDeg, elevationDeg) ==
    LET horizontalDistance == (distance * Cos5(elevationDeg)) \div 5
    IN Vec(t.x + (horizontalDistance * Cos5(azimuthDeg)) \div 5,
           t.y + (distance * Sin5(elevationDeg)) \div 5,
           t.z + (horizontalDistance * Sin5(azimuthDeg)) \div 5)

\* a call's effect on the camera: position, facing, controls target, and
\* whether it threw
Pose(pos, dir, tgt, threw) ==
    [position |-> pos, direction |-> dir, target |-> tgt, threw |-> threw]

applyCameraConfig(pos, dir, tgt, cameraConfig) ==
    LET position == IF cameraConfig.hasPolar
                    THEN polarToCartesian(cameraConfig.target, cameraConfig.distance,
                                          cameraConfig.azimuth, cameraConfig.elevation)
                    ELSE pos
    IN Pose(position, lookAt(position, dir, cameraConfig.target), cameraConfig.target, FALSE)

\* HelsinkiScene.applyCameraPreset
applyCameraPreset(presetName, pos, dir, tgt) ==
    IF presetName \in PresetNames \cup InheritedNames
    THEN applyCameraConfig(pos, dir, tgt, CameraPreset(presetName))
    ELSE Pose(pos, dir, tgt, FALSE)

\* HelsinkiScene.focusPOI: reading worldCoords.x of an inherited member throws
focusPOI(poiName, distance, azimuth, elevation, pos, dir, tgt) ==
    IF poiName \in POIs
    THEN applyCameraConfig(pos, dir, tgt,
                           PolarConfig(WorldCoords(poiName), distance, azimuth, elevation))
    ELSE IF poiName \in InheritedNames
    THEN Pose(pos, dir, tgt, TRUE)
    ELSE Pose(pos, dir, tgt, FALSE)

\* POIHighlightManager.highlightPOI, the ray hitting n meshes: highlighted POI,
\* highlighted meshes, and whether the call threw
highlightPOI(poiName, n, poi, meshes, model) ==
    LET cleared == [poi |-> clearHighlights(poi, meshes), meshes |-> 0, threw |-> FALSE]
    IN IF ~model THEN cleared
       ELSE IF poiName \in POIs THEN [poi |-> poiName, meshes |-> n, threw |-> FALSE]
       ELSE IF poiName \in InheritedNames THEN [cleared EXCEPT !.threw = TRUE]
       ELSE cleared

\* the handoff target without the height floor
handoffTargetUnclamped(pos, dir, tgt) ==
    LET currentDistance == distanceTo(pos, tgt)
        n == ISqrt(LengthSq(dir))
    IN Vec(pos.x + (dir.x * currentDistance) \div n,
           pos.y + (dir.y * currentDistance) \div n,
           pos.z + (dir.z * currentDistance) \div n)

\* handleAnimationInterrupt: the smooth handoff target
handoffTarget(pos, dir, tgt) ==
    LET newTarget == handoffTargetUnclamped(pos, dir, tgt)
    IN [newTarget EXCEPT !.y = Max(newTarget.y, MinTargetY)]

-----------------------------------------------------------------------------
(* DragControls.  Lengths are in thousandths of a world unit, angles in      *)
(* hundred-thousandths of a radian, pointer coordinates in pixels.  A        *)
(* product with a fraction is cut towards zero; a rotation is taken to first *)
(* order in its angle.                                                       *)

Milli == 1000             \* model length units per world unit

\* a / b cut towards zero (b > 0)
TDiv(a, b) == IF a >= 0 THEN a \div b ELSE -((-a) \div b)

VAdd(a, b) == Vec(a.x + b.x, a.y + b.y, a.z + b.z)

\* DragConfig as passed by HelsinkiCameraController: panSensitivity 0.5,
\* rotateSensitivity 0.003, friction 0.96, velocityThreshold 0.001,
\* rotationThreshold 0.00001, smoothingFactor 0.2
PanSensitivityMilli == 500      \* length units per pixel

RotateSensitivity == 300        \* angle units per pixel

FrictionPercent == 96

VelocityThreshold == 1          \* length units

RotationThreshold == 1          \* angle units

SmoothingDen == 5               \* smoothingFactor = 1 / 5

EdgeMargin == 40                \* soft edge of the bounding box, world units

DefaultDragConfig ==
    [enabled |-> TRUE, friction |-> FrictionPercent,
     velocityThreshold |-> VelocityThreshold,
     rotationThreshold |-> RotationThreshold]

NoBox == [set |-> FALSE, min |-> Origin, max |-> Origin]

Box(lo, hi) == [set |-> TRUE, min |-> Vec(lo, 0, lo), max |-> Vec(hi, 0, hi)]

\* MAP_BOUNDARIES (x and z, min = -max)
MapBound == 1100

\* clampToMapBounds(x, z), one coordinate
clampToMapBounds(c) == Max(-MapBound * Milli, Min(MapBound * Milli, c))

\* the drag state: the fields of DragControls, the camera and orbit.target
Drag == [isDragging |-> isDragging, velocity |-> velocity,
         rotationVelocity |-> rotationVelocity,
         lastMouseX |-> lastMouseX, lastMouseY |-> lastMouseY,
         position |-> cameraPosition, direction |-> cameraDirection,
         target |-> target]

\* a clamp that leaves the pose as it is
clampNothing(d, box) == d

\* DragControls.clampToMapBoundaries
clampToMapBoundaries(d, box) ==
    IF box.set
    THEN [d EXCEPT !.position.x = Max(box.min.x, Min(box.max.x, @)),
                   !.position.z = Max(box.min.z, Min(box.max.z, @)),
                   !.target.x = Max(box.min.x, Min(box.max.x, @)),
                   !.target.z = Max(box.min.z, Min(box.max.z, @))]
    ELSE [d EXCEPT !.position.x = clampToMapBounds(@),
                   !.position.z = clampToMapBounds(@),
                   !.target.x = clampToMapBounds(@),
                   !.target.z = clampToMapBounds(@)]

\* Vector3.applyAxisAngle(Y, angle), to first order in the angle
rotateY(v, angle) ==
    Vec(v.x + TDiv(v.z, 1000) * TDiv(angle, 100),
        v.y,
        v.z - TDiv(v.x, 1000) * TDiv(angle, 100))

\* |v| > threshold, for v in the horizontal plane
Exceeds(v, threshold) ==
    IF Abs(v.x) > threshold \/ Abs(v.z) > threshold THEN TRUE
    ELSE v.x * v.x + v.z * v.z > threshold * threshold

\* |v| < threshold * 0.1
BelowTenth(v, threshold) ==
    IF 10 * Abs(v.x) >= threshold \/ 10 * Abs(v.z) >= threshold THEN FALSE
    ELSE 100 * (v.x * v.x + v.z * v.z) < threshold * threshold

\* easeOutQuart(t) for t = q / 4, as a numerator over EaseQuartDen
EaseQuartDen == 256

easeOutQuartQ(q) == EaseQuartDen - (4 - q) * (4 - q) * (4 - q) * (4 - q)

\* the easing of handlePointerMove near the bounding box's edge, t taken up
\* to the next quarter: the factor is zero on the edge itself and nowhere else
edgeEasing(pos, box) ==
    IF ~box.set THEN EaseQuartDen
    ELSE LET m == Min(Min(Abs(pos.x - box.min.x), Abs(pos.x - box.max.x)),
                      Min(Abs(pos.z - box.min.z), Abs(pos.z - box.max.z)))
             q == Min(4, (4 * m + EdgeMargin * Milli - 1) \div (EdgeMargin * Milli))
         IN easeOutQuartQ(q)

\* the camera's forward direction projected on the ground and normalised
\* (the direction taken in whole world units), times s
forwardScaled(dir, s) ==
    LET dx == TDiv(dir.x, Milli)
        dz == TDiv(dir.z, Milli)
        n == ISqrt(dx * dx + dz * dz)
    IN IF n = 0 THEN Origin
       ELSE Vec(TDiv(dx * s, n), 0, TDiv(dz * s, n))

\* DragControls.startDrag(x, y)
startDrag(d, x, y) ==
    [d EXCEPT !.isDragging = TRUE, !.lastMouseX = x, !.lastMouseY = y]

\* DragControls.stopDrag()
stopDrag(d) == [d EXCEPT !.isDragging = FALSE]

\* a pointer move that drags whether or not a drag is in progress and whether
\* or not the controls are enabled
handlePointerMoveUnguarded(d, x, y, buttons, box, cfg) ==
    LET e == edgeEasing(d.position, box)
        rv == TDiv((x - d.lastMouseX) * RotateSensitivity * e, EaseQuartDen)
        aim == forwardScaled(d.direction,
                             TDiv((y - d.lastMouseY) * PanSensitivityMilli * e, EaseQuartDen))
        v == Vec(d.velocity.x + TDiv(aim.x - d.velocity.x, SmoothingDen),
                 d.velocity.y + TDiv(aim.y - d.velocity.y, SmoothingDen),
                 d.velocity.z + TDiv(aim.z - d.velocity.z, SmoothingDen))
    IN clampToMapBoundaries(
           [d EXCEPT !.lastMouseX = x, !.lastMouseY = y,
                     !.rotationVelocity = rv, !.velocity = v,
                     !.target = VAdd(VAdd(d.position,
                                          rotateY(VSub(d.target, d.position), rv)), v)],
           box)

\* DragControls.handlePointerMove(event), event at (x, y) with event.buttons
handlePointerMove(d, x, y, buttons, box, cfg) ==
    IF ~cfg.enabled THEN d
    ELSE LET deltaX == x - d.lastMouseX
             deltaY == y - d.lastMouseY
             moved == [d EXCEPT !.lastMouseX = x, !.lastMouseY = y]
         IN IF ~(d.isDragging /\ buttons = 1) THEN moved
            ELSE LET e == edgeEasing(d.position, box)
                     rv == TDiv(deltaX * RotateSensitivity * e, EaseQuartDen)
                     rotated == VAdd(d.position,
                                     rotateY(VSub(d.target, d.position), rv))
                     targetPanZ == TDiv(deltaY * PanSensitivityMilli * e, EaseQuartDen)
                     targetVelocity == forwardScaled(d.direction, targetPanZ)
                     v == Vec(d.velocity.x + TDiv(targetVelocity.x - d.velocity.x, SmoothingDen),
                              d.velocity.y + TDiv(targetVelocity.y - d.velocity.y, SmoothingDen),
                              d.velocity.z + TDiv(targetVelocity.z - d.velocity.z, SmoothingDen))
                 IN clampToMapBoundaries(
                        [moved EXCEPT !.rotationVelocity = rv,
                                      !.direction = lookAt(d.position, d.direction, rotated),
                                      !.velocity = v,
                                      !.target = VAdd(rotated, v)],
                        box)

\* the rotation part of applyMomentum
rotationMomentum(d, cfg) ==
    IF Abs(d.rotationVelocity) > cfg.rotationThreshold
    THEN LET newTarget == VAdd(d.position,
                               rotateY(VSub(d.target, d.position), d.rotationVelocity))
             tgt == Vec(d.target.x + TDiv((newTarget.x - d.target.x) * 3, 10),
                        d.target.y + TDiv((newTarget.y - d.target.y) * 3, 10),
                        d.target.z + TDiv((newTarget.z - d.target.z) * 3, 10))
             rv == TDiv(d.rotationVelocity * cfg.friction, 100)
         IN [d EXCEPT !.target = tgt,
                      !.direction = lookAt(d.position, d.direction, tgt),
                      !.rotationVelocity =
                          IF 10 * Abs(rv) < cfg.rotationThreshold THEN 0 ELSE rv]
    ELSE [d EXCEPT !.rotationVelocity = 0]

\* a pan momentum that never decays
panMomentumUndamped(d, cfg) ==
    [d EXCEPT !.position = VAdd(d.position, d.velocity),
              !.target = VAdd(d.target, d.velocity)]

\* the pan part of applyMomentum
panMomentum(d, cfg) ==
    IF Exceeds(d.velocity, cfg.velocityThreshold)
    THEN LET v == Vec(TDiv(d.velocity.x * cfg.friction, 100),
                      TDiv(d.velocity.y * cfg.friction, 100),
                      TDiv(d.velocity.z * cfg.friction, 100))
         IN [d EXCEPT !.position = VAdd(d.position, d.velocity),
                      !.target = VAdd(d.target, d.velocity),
                      !.velocity = IF BelowTenth(v, cfg.velocityThreshold)
                                   THEN Origin ELSE v]
    ELSE [d EXCEPT !.velocity = Origin]

\* DragControls.applyMomentum(): the rotation part, then the pan part, then
\* the clamp, each working on the state the one before has left
applyMomentum(d, box, cfg) ==
    IF d.isDragging THEN d
    ELSE CHOOSE clamped \in
             { clampToMapBoundaries(panned, box) :
                   panned \in { panMomentum(rotated, cfg) :
                                   rotated \in { rotationMomentum(d, cfg) } } } : TRUE

\* observation of the pointer gestures: the sum of the deltas dragged, the
\* moves and momentum frames so far, the last operation
NoGesture == [netX |-> 0, netY |-> 0, moves |-> 0, frames |-> 0, op |-> "none",
              \* the user gesture under way: its kind, the events it has yet
              \* to produce, the onInterrupt invocations it has caused, and
              \* whether onInterrupt was invoked with no animated state active
              \* or by a button other than the left one
              kind |-> "none", pending |-> << >>, onInterrupts |-> 0,
              idleInvoked |-> FALSE, otherButtonInvoked |-> FALSE,
              \* the clock at the user's last input
              lastInputTime |-> 0]

NoIdleRotation ==
    [exists |-> FALSE, isActive |-> FALSE, isPaused |-> FALSE, startTime |-> 0,
     pausedTime |-> 0, accumulatedTime |-> 0, center |-> Origin,
     initialOffset |-> Origin]

NoFrame == [writers |-> {}, animated |-> Origin, interrupted |-> {},
            threw |-> FALSE, fellBack |-> FALSE, drove |-> "none"]

\* BoundaryEasing.  A factor is a fraction num / den, den > 0.
Frac(n, d) == [num |-> n, den |-> d]

FracLeq(a, b) == a.num * b.den <= b.num * a.den

\* easeOutQuart(t) for t = n / d
easeOutQuart(n, d) ==
    Frac(d * d * d * d - (d - n) * (d - n) * (d - n) * (d - n), d * d * d * d)

\* softBoundaryZone = 0.20, the default and the controller's configuration
DefaultSoftBoundaryZone == Frac(1, 5)

\* an easing that treats every approach as one towards the minimum
calculateGenericOneSided(currentValue, minValue, maxValue, movingTowardsMin, zone) ==
    LET range == maxValue - minValue
        distanceFromMin == currentValue - minValue
    IN IF range <= 0 THEN Frac(1, 1)
       ELSE IF distanceFromMin * zone.den < range * zone.num /\ distanceFromMin >= 0
       THEN easeOutQuart(distanceFromMin * zone.den, range * zone.num)
       ELSE Frac(1, 1)

\* BoundaryEasing.calculateGeneric, zone being this.softBoundaryZone; the
\* soft zone's size is range * zone.num / zone.den
calculateGeneric(currentValue, minValue, maxValue, movingTowardsMin, zone) ==
    LET range == maxValue - minValue
        distanceFromMin == currentValue - minValue
        distanceFromMax == maxValue - currentValue
    IN IF range <= 0 THEN Frac(1, 1)
       ELSE IF movingTowardsMin
       THEN IF distanceFromMin * zone.den < range * zone.num /\ distanceFromMin >= 0
            THEN easeOutQuart(distanceFromMin * zone.den, range * zone.num)
            ELSE Frac(1, 1)
       ELSE IF distanceFromMax * zone.den < range * zone.num /\ distanceFromMax >= 0
            THEN easeOutQuart(distanceFromMax * zone.den, range * zone.num)
            ELSE Frac(1, 1)

\* the last call of calculateGeneric: arguments, the instance's soft zone and
\* the value returned
NoEasing == [currentValue |-> 0, minValue |-> 0, maxValue |-> 0,
             movingTowardsMin |-> FALSE, softBoundaryZone |-> DefaultSoftBoundaryZone,
             value |-> Frac(1, 1), called |-> FALSE]

-----------------------------------------------------------------------------
(* The scene's frame: cinematic intro, idle rotation and the controller's    *)
(* update.                                                                   *)

CinematicDurationMs == 3000     \* createCinematicAnimation: duration = 3.0

IdleStartPercent == 80          \* idle rotation is created at 80% progress

CinematicStopPercent == 98      \* the cinematic stops at 98% progress

IdleRotationSpeed == -2618      \* -(PI / 120) rad/s, in angle units per second

ParallaxLerpPercent == 8        \* cameraLerpAlpha = 0.08

\* CAMERA_BASE.target and CAMERA_BASE.position
CameraBaseTarget == Vec(603, 0, -347)

CameraBasePosition == Vec(-105, 250, -1040)

\* createCinematicAnimation: startPosition, startHeight 1500, startDistance 100
CinematicStartPosition ==
    Vec(CameraBaseTarget.x + 100, CameraBaseTarget.y + 1500, CameraBaseTarget.z + 100)

\* heavyEaseOut(e / d) as a numerator over HeavyDen(d)
HeavyDen(d) == d * d * d * d * d

heavyEaseOut(e, d) == HeavyDen(d) - (d - e) * (d - e) * (d - e) * (d - e) * (d - e)

\* getAnimationProgress, in percent (cut)
getAnimationProgress(animation, elapsedTime) ==
    IF ~animation.isPlaying THEN 100
    ELSE Min(((elapsedTime - animation.startTime) * 100) \div CinematicDurationMs, 100)

\* the rig a frame works on: the drag state with camera and orbit.target, the
\* controller's target proxy, the animations, the controller's backends and
\* parallax state, and what the frame has done so far
Rig == [d |-> Drag, proxy |-> target,
        cinematic |-> cinematicAnimation, idle |-> idleRotation,
        controls |-> controls, base |-> baseCameraPosition,
        ctp |-> cameraTargetPosition, userInteracting |-> userInteracting,
        writers |-> {}, animated |-> cameraPosition,
        threw |-> FALSE, drove |-> "none"]

\* a driver writes camera.position
Write(r, driver, pos) ==
    [r EXCEPT !.d.position = pos, !.writers = @ \cup {driver},
              !.animated = IF driver = "controller" THEN @ ELSE pos]

\* HelsinkiCameraController.update (refactored) on a throwing advanced
\* controller: it is discarded and a new OrbitControls installed
fallbackRefactored(c) == [c EXCEPT !.cameraControls = FALSE, !.orbit = TRUE]

\* HelsinkiCameraController.update (unified) on a throwing advanced controller
fallbackUnified(c) == [c EXCEPT !.cameraControls = FALSE]

\* the orbit branch of update after orbit.update(): m is the drag state
\* applyMomentum leaves
momentumApplied(o, m) ==
    IF m.position # o.d.position
    THEN [Write(o, "momentum", m.position) EXCEPT !.d = m]
    ELSE [o EXCEPT !.d = m]

\* the orbit branch of update: orbit.update() turns the camera to the target,
\* then the drag controls apply their momentum
orbitUpdate(o) == momentumApplied(o, applyMomentum(o.d, boundingBox, dragConfig))

\* HelsinkiCameraController.update, the backend's part; throws: the advanced
\* controller's update throws
backendUpdate(r, throws) ==
    IF r.controls.cameraControls
    THEN IF throws
         THEN [r EXCEPT !.controls = IF r.controls.variant = "refactored"
                                     THEN fallbackRefactored(@)
                                     ELSE fallbackUnified(@),
                        !.d.target = IF r.controls.variant = "refactored"
                                     THEN Origin ELSE @,
                        !.threw = TRUE]
         ELSE [r EXCEPT !.drove = "advanced"]
    ELSE IF r.controls.orbit
    THEN orbitUpdate([r EXCEPT !.d.direction =
                                   lookAt(r.d.position, r.d.direction, r.d.target),
                               !.drove = "orbit"])
    ELSE r

\* update: the base position follows the camera while the user moves it
baseUpdate(backend) ==
    IF \/ backend.d.isDragging
       \/ Exceeds(backend.d.velocity, dragConfig.velocityThreshold)
       \/ Abs(backend.d.rotationVelocity) > dragConfig.rotationThreshold
    THEN [backend EXCEPT !.base = backend.d.position]
    ELSE backend

\* update: cameraTargetPosition moves towards the intended position and the
\* camera is put there; the proxy target follows the orbit target
parallaxUpdate(based) ==
    LET intended == based.base
        ctp == Vec(based.ctp.x + TDiv((intended.x - based.ctp.x) * ParallaxLerpPercent, 100),
                   based.ctp.y + TDiv((intended.y - based.ctp.y) * ParallaxLerpPercent, 100),
                   based.ctp.z + TDiv((intended.z - based.ctp.z) * ParallaxLerpPercent, 100))
    IN Write([based EXCEPT !.ctp = ctp,
                           !.proxy = IF based.controls.orbit THEN based.d.target ELSE @],
             "controller", ctp)

\* HelsinkiCameraController.update
controllerUpdate(r, throws) == parallaxUpdate(baseUpdate(backendUpdate(r, throws)))

\* updateCinematicAnimation; the rig after the call and its return value
updateCinematicAnimation(r, elapsedTime, throws) ==
    IF ~r.cinematic.isPlaying THEN [rig |-> r, ret |-> FALSE]
    ELSE LET d == CinematicDurationMs \div TickMs
             e == Min((elapsedTime - r.cinematic.startTime) \div TickMs, d)
         IN IF e >= d
            THEN [rig |-> [Write(r, "cinematic", CameraBasePosition) EXCEPT
                               !.d.direction = lookAt(CameraBasePosition, r.d.direction,
                                                      CameraBaseTarget),
                               !.proxy = CameraBaseTarget],
                  ret |-> FALSE]
            ELSE LET pos == lerpVectors(CinematicStartPosition, CameraBasePosition,
                                        heavyEaseOut(e, d), HeavyDen(d))
                     moved == [Write(r, "cinematic", pos) EXCEPT
                                   !.proxy = CameraBaseTarget]
                 IN [rig |-> controllerUpdate(moved, throws), ret |-> TRUE]

\* createIdleRotation(camera, lookAtPoint, elapsedTime)
createIdleRotation(pos, lookAtPoint, elapsedTime) ==
    [exists |-> TRUE, isActive |-> TRUE, isPaused |-> FALSE,
     startTime |-> elapsedTime, pausedTime |-> 0, accumulatedTime |-> 0,
     center |-> lookAtPoint, initialOffset |-> VSub(pos, lookAtPoint)]

\* the rotation of updateIdleRotation about the vertical axis, to first order
rotateOffset(v, angle) ==
    Vec(v.x - TDiv(v.z * angle, 100000), v.y, v.z + TDiv(v.x * angle, 100000))

\* stopIdleRotation
stopIdleRotation(rotation) ==
    IF rotation.exists THEN [rotation EXCEPT !.isActive = FALSE] ELSE rotation

\* resumeIdleRotation(rotation, camera, elapsedTime)
resumeIdleRotation(rotation, pos, elapsedTime) ==
    [rotation EXCEPT !.initialOffset = VSub(pos, rotation.center),
                     !.isPaused = FALSE,
                     !.startTime = elapsedTime]

\* updateIdleRotation from the computation of the angle on: the camera is put
\* on the circle and turned to the centre
idleRotated(r, elapsedTime) ==
    LET elapsed == r.idle.accumulatedTime + (elapsedTime - r.idle.startTime)
        angle == TDiv(elapsed * IdleRotationSpeed, 1000)
        pos == VAdd(r.idle.center, rotateOffset(r.idle.initialOffset, angle))
    IN [rig |-> [Write(r, "idle", pos) EXCEPT
                     !.d.direction = lookAt(pos, r.d.direction, r.idle.center),
                     !.proxy = r.idle.center],
        ret |-> TRUE]

\* updateIdleRotation; a paused rotation resumes when controls.shouldResumeIdle
\* is defined and returns true
updateIdleRotation(r, elapsedTime) ==
    IF ~r.idle.isActive THEN [rig |-> r, ret |-> FALSE]
    ELSE IF r.userInteracting
    THEN [rig |-> IF r.idle.isPaused THEN r
                  ELSE [r EXCEPT !.idle.isPaused = TRUE,
                                 !.idle.pausedTime = elapsedTime,
                                 !.idle.accumulatedTime =
                                     @ + (elapsedTime - r.idle.startTime)],
          ret |-> TRUE]
    ELSE IF r.idle.isPaused
    THEN IF r.controls.shouldResumeIdle = "true"
         THEN idleRotated([r EXCEPT !.idle = resumeIdleRotation(@, r.d.position,
                                                                elapsedTime)],
                          elapsedTime)
         ELSE [rig |-> r, ret |-> TRUE]
    ELSE idleRotated(r, elapsedTime)

\* HelsinkiScene.update: the idle rotation is created once the cinematic
\* animation has reached IdleStartPercent
idleCreated(r, elapsed) ==
    IF /\ r.cinematic.exists /\ r.cinematic.isPlaying
       /\ getAnimationProgress(r.cinematic, elapsed) >= IdleStartPercent
       /\ ~r.idle.exists
    THEN [r EXCEPT !.idle = createIdleRotation(r.d.position, Origin, elapsed)]
    ELSE r

\* isPlaying is cleared when an update reports the animation over
cinematicResult(u) ==
    IF u.ret THEN u.rig ELSE [u.rig EXCEPT !.cinematic.isPlaying = FALSE]

\* HelsinkiScene.update: the cinematic animation's part
cinematicUpdate(r, elapsed, throws) ==
    IF ~(r.cinematic.exists /\ r.cinematic.isPlaying) THEN r
    ELSE IF getAnimationProgress(r.cinematic, elapsed) < CinematicStopPercent
    THEN cinematicResult(updateCinematicAnimation(r, elapsed, throws))
    ELSE [r EXCEPT !.cinematic.isPlaying = FALSE]

idleResult(u) ==
    IF u.ret THEN u.rig ELSE [u.rig EXCEPT !.idle.isActive = FALSE]

\* HelsinkiScene.update: the idle rotation's part
idleUpdate(r, elapsed) ==
    IF r.idle.exists /\ r.idle.isActive
    THEN idleResult(updateIdleRotation(r, elapsed))
    ELSE r

\* HelsinkiScene.update at clock time elapsed
sceneUpdate(r, elapsed, throws) ==
    controllerUpdate(idleUpdate(cinematicUpdate(idleCreated(r, elapsed),
                                                elapsed, throws),
                                elapsed),
                     throws)

\* the animated states active in the scene
ActiveAnimations ==
    (IF cinematicAnimation.exists /\ cinematicAnimation.isPlaying
     THEN {"cinematic"} ELSE {})
    \cup (IF idleRotation.exists /\ idleRotation.isActive THEN {"idle"} ELSE {})
    \cup (IF poiTransition.exists /\ poiTransition.isAnimating
          THEN {"transition"} ELSE {})

\* the drivers of the camera pose
Drivers == {"momentum", "cinematic", "idle", "transition"}

\* HelsinkiCameraController.constructor: OrbitControls is the backend
OrbitBackend ==
    [variant |-> "refactored", cameraControls |-> FALSE, orbit |-> TRUE,
     installedAdvanced |-> FALSE,
     \* controls.shouldResumeIdle, which updateIdleRotation consults: the
     \* controller defines no such member
     shouldResumeIdle |-> "undefined"]

\* the controller, its drag controls and the scene's animations as constructed
RigConstructed ==
    /\ velocity = Origin
    /\ rotationVelocity = 0
    /\ lastMouseX = 0
    /\ lastMouseY = 0
    /\ boundingBox = NoBox
    /\ dragConfig = DefaultDragConfig
    /\ gesture = NoGesture
    /\ controls = OrbitBackend
    /\ baseCameraPosition = cameraPosition
    /\ cameraTargetPosition = cameraPosition
    /\ idleRotation = NoIdleRotation
    /\ helsinkiModel = TRUE
    /\ frame = NoFrame
    /\ easing = NoEasing

\* the state after construction of scene, controller and interaction manager
InteractConstructed ==
    /\ cameraPosition \in CameraStarts
    /\ target = Origin
    /\ cameraDirection = VSub(Origin, cameraPosition)
    /\ clock = 0
    /\ cinematicAnimation = NoCinematic
    /\ poiTransition = NoTransition
    /\ highlightedPOI = "null"
    /\ highlightedMeshes = 0
    /\ listeners = ManagerListeners \cup ControllerListeners
    /\ userInteracting = FALSE
    /\ isDragging = FALSE
    /\ interactionDisposed = FALSE
    /\ controllerDisposed = FALSE
    /\ lastCall = NoCall
    /\ RigConstructed

\* the scene as constructed, its managers not the subject
InteractIdle ==
    /\ cameraPosition = Vec(0, 48, 96)
    /\ InteractConstructed

-----------------------------------------------------------------------------
(* The passage of time *)

Due(ts) == { i \in Pending(ts) : ts[i].rem = 0 }

Elapse(ts) ==
    [i \in DOMAIN ts |->
        IF ts[i].kind # "none"
        THEN [ts[i] EXCEPT !.rem = Max(0, @ - TickMs)]
        ELSE ts[i]]

ResumeHorizonMs == inactivityTimeout + GraceDelayMs

TickTour(t) ==
    [t EXCEPT !.sinceVisit = Min(@ + TickMs, finalPoiPause + TickMs),
              !.sinceInput = IF t.armed THEN Min(@ + TickMs, ResumeHorizonMs + TickMs)
                             ELSE @,
              !.justVisited = FALSE]

\* TickMs pass; no timer is due (a due timer fires first)
Tick ==
    /\ Due(timers) = {}
    /\ timers' = Elapse(timers)
    /\ timeSinceLastInteraction' = Min(timeSinceLastInteraction + TickMs, inactivityTimeout)
    /\ lastFire' = NoFire
    /\ tour' = TickTour(tour)
    /\ UNCHANGED << enabled, currentIndex, config, isWaitingForNextPOI,
                    timeout, inactivityTimer, disposed >>
    /\ UNCHANGED << interactVars, rigVars >>

-----------------------------------------------------------------------------
(* The manager driven through its public methods by any caller; the caller's *)
(* callbacks are opaque (lastFire records that one was invoked).             *)

\* the delays passed to scheduleNext(): the default
Delays == {ScheduleDelayMs}

\* a tour of two POIs with short configured waits
InitTour ==
    /\ Constructed({ s \in Sequences : s = << "A", "B" >> }, {3 * TickMs}, {2 * TickMs})
    /\ InteractIdle

\* what firing timer i did, m being the manager's state when the timer's own
\* code has run
Observe(i, m) ==
    [cb |-> CallbackOf(timers[i].kind),
     kind |-> timers[i].kind,
     stale |-> IsStale(i),
     cancelled |-> timers[i].cancelled,
     changed |-> \/ m.enabled # enabled
                 \/ m.currentIndex # currentIndex
                 \/ m.isWaitingForNextPOI # isWaitingForNextPOI]

Call(m) ==
    /\ ~disposed
    /\ SetMgr(m)
    /\ lastFire' = NoFire
    /\ UNCHANGED << config, disposed, tour, interactVars, rigVars >>

CallStart == HasFreeId(timers) /\ Call(start(Mgr))

CallStop == Call(stop(Mgr))

CallAdvance ==
    /\ currentIndex < Len(poiSequence) + MaxOverrun
    /\ Call(advance(Mgr))

CallScheduleNext ==
    /\ HasFreeId(timers)
    /\ \E d \in Delays : Call(scheduleNext(Mgr, d))

CallHandleCompletion == HasFreeId(timers) /\ Call(handleCompletion(Mgr))

CallStartInactivityTimer ==
    /\ HasFreeId(clearInactivityTimer(Mgr).timers)
    /\ Call(startInactivityTimer(Mgr))

CallRecordInteraction == Call(recordInteraction(Mgr))

CallDispose ==
    /\ ~disposed
    /\ SetMgr(dispose(Mgr))
    /\ disposed' = TRUE
    /\ lastFire' = NoFire
    /\ UNCHANGED << config, tour, interactVars, rigVars >>

\* a due timer fires and runs its callback
FireTimer ==
    \E i \in Due(timers) :
        /\ SetMgr(timerCallback(Mgr, i))
        /\ lastFire' = Observe(i, timerCallback(Mgr, i))
        /\ UNCHANGED << config, disposed, tour, interactVars, rigVars >>

NextTour ==
    \/ CallStart
    \/ CallStop
    \/ CallAdvance
    \/ CallScheduleNext
    \/ CallHandleCompletion
    \/ CallStartInactivityTimer
    \/ CallRecordInteraction
    \/ CallDispose
    \/ FireTimer
    \/ Tick

SpecTour == InitTour /\ [][NextTour]_vars

-----------------------------------------------------------------------------
(* The tour's driver: every tour callback (onFlyToNext, onRestart, onResume) *)
(* visits getNextPOI(), calls advance(), then scheduleNext(), or             *)
(* handleCompletion() once isComplete().  A user interaction calls stop()    *)
(* and startInactivityTimer(); further input calls recordInteraction().      *)

flyToNext(m) ==
    IF getNextPOI(m.currentIndex) = "null"
    THEN handleCompletion(m)
    ELSE LET a == advance(m)
         IN IF isComplete(a.currentIndex)
            THEN handleCompletion(a)
            ELSE scheduleNext(a, ScheduleDelayMs)

Visit(t, m) ==
    IF getNextPOI(m.currentIndex) = "null"
    THEN [t EXCEPT !.justVisited = FALSE]
    ELSE [t EXCEPT !.visited = getNextPOI(m.currentIndex),
                   !.justVisited = TRUE,
                   !.prevPos = t.pos,
                   !.pos = m.currentIndex + 1,
                   !.gap = t.sinceVisit,
                   !.sinceVisit = 0]

Resumed(t, m) ==
    IF t.resumes = 0
    THEN [t EXCEPT !.resumes = 1, !.resumeAt = t.sinceInput,
                   !.idxAtResume = m.currentIndex, !.enabledAtResume = m.enabled]
    ELSE [t EXCEPT !.resumes = 2]

StartTour ==
    /\ ~tour.started
    /\ SetMgr(start(Mgr))
    /\ tour' = [tour EXCEPT !.started = TRUE, !.sinceVisit = 0]
    /\ lastFire' = NoFire
    /\ UNCHANGED << config, disposed, interactVars, rigVars >>

\* a due tour timer fires: its callback runs the driver
FireTour ==
    \E i \in Due(timers) :
        /\ timers[i].kind \in TourKinds
        /\ LET m == timerCallback(Mgr, i)
           IN /\ SetMgr(flyToNext(m))
              /\ lastFire' = Observe(i, m)
              /\ tour' = Visit(IF timers[i].kind = "grace" THEN Resumed(tour, m)
                               ELSE tour, m)
        /\ UNCHANGED << config, disposed, interactVars, rigVars >>

\* the inactivity timer fires
FireInactivity ==
    \E i \in Due(timers) :
        /\ timers[i].kind = "inactivity"
        /\ SetMgr(timerCallback(Mgr, i))
        /\ lastFire' = Observe(i, timerCallback(Mgr, i))
        /\ tour' = [tour EXCEPT !.justVisited = FALSE]
        /\ UNCHANGED << config, disposed, interactVars, rigVars >>

\* the user interacts while the tour runs or waits
Interrupt ==
    /\ tour.started
    /\ SetMgr(startInactivityTimer(stop(Mgr)))
    /\ tour' = [tour EXCEPT !.armed = TRUE, !.recorded = FALSE, !.sinceInput = 0,
                            !.idxAtStop = currentIndex, !.resumes = 0,
                            !.resumeAt = 0, !.idxAtResume = 0,
                            !.enabledAtResume = FALSE, !.justVisited = FALSE]
    /\ lastFire' = NoFire
    /\ UNCHANGED << config, disposed, interactVars, rigVars >>

\* the user interacts again after an interruption
RecordInteraction ==
    /\ tour.armed
    /\ tour.resumes = 0
    /\ SetMgr(recordInteraction(Mgr))
    /\ tour' = [tour EXCEPT !.recorded = TRUE, !.sinceInput = 0,
                            !.justVisited = FALSE]
    /\ lastFire' = NoFire
    /\ UNCHANGED << config, disposed, interactVars, rigVars >>

DefaultConfig ==
    /\ Constructed(Sequences, {DefaultInactivityTimeoutMs}, {DefaultFinalPoiPauseMs})
    /\ InteractIdle

InitCycle == DefaultConfig

NextCycle ==
    \/ StartTour
    \/ FireTour
    \/ Tick

\* the host's clock runs and its due timers fire
SpecCycle == InitCycle /\ [][NextCycle]_vars /\ WF_vars(NextCycle)

InitScene == DefaultConfig

NextScene ==
    \/ StartTour
    \/ FireTour
    \/ FireInactivity
    \/ Interrupt
    \/ RecordInteraction
    \/ Tick

SpecScene == InitScene /\ [][NextScene]_vars

-----------------------------------------------------------------------------
(* The scene's animations, the interaction manager and the DOM element's     *)
(* events.                                                                   *)

FocusDistance == 80       \* camera distance of a POI focus

FocusElevation == 37      \* camera elevation of a POI focus, degrees

FocusDurationMs == 2000   \* default duration of a POI transition

Azimuths == {0, 90}

MaxTransitions == 2       \* POI transitions created in a run

MaxInterrupts == 2        \* interrupts performed in a run

MaxMeshes == 1            \* meshes a highlight can hit

\* the render loop's clock advances
AdvanceClock ==
    /\ clock < MaxClockTicks * TickMs
    /\ clock' = clock + TickMs
    /\ lastCall' = CallOf("tick")
    /\ UNCHANGED << cameraPosition, cameraDirection, target, cinematicAnimation,
                    poiTransition, highlightedPOI, highlightedMeshes, listeners,
                    userInteracting, isDragging, interactionDisposed,
                    controllerDisposed >>
    /\ UNCHANGED << tourVars, rigVars >>

\* HelsinkiScene.playIntroAnimation
PlayIntroAnimation ==
    /\ ~cinematicAnimation.exists
    /\ cinematicAnimation' = [exists |-> TRUE, isPlaying |-> TRUE, startTime |-> clock]
    /\ lastCall' = CallOf("playIntroAnimation")
    /\ UNCHANGED << cameraPosition, cameraDirection, target, clock,
                    poiTransition, highlightedPOI, highlightedMeshes, listeners,
                    userInteracting, isDragging, interactionDisposed,
                    controllerDisposed >>
    /\ UNCHANGED << tourVars, rigVars >>

\* HelsinkiScene.update: the cinematic animation runs out
CinematicEnds ==
    /\ cinematicAnimation.exists /\ cinematicAnimation.isPlaying
    /\ cinematicAnimation' = [cinematicAnimation EXCEPT !.isPlaying = FALSE]
    /\ lastCall' = CallOf("update")
    /\ UNCHANGED << cameraPosition, cameraDirection, target, clock,
                    poiTransition, highlightedPOI, highlightedMeshes, listeners,
                    userInteracting, isDragging, interactionDisposed,
                    controllerDisposed >>
    /\ UNCHANGED << tourVars, rigVars >>

\* a POI is focused: createPOITransition from the camera's present pose
FocusPOI ==
    \E p \in Range(poiSequence), az \in Azimuths :
        /\ poiTransition.generation < MaxTransitions
        /\ poiTransition' = createPOITransition(cameraPosition, target, WorldCoords(p),
                                                FocusDistance, az, FocusElevation,
                                                FocusDurationMs, clock,
                                                poiTransition.generation + 1)
        /\ lastCall' = CallOf("createPOITransition")
        /\ UNCHANGED << cameraPosition, cameraDirection, target, clock,
                        cinematicAnimation, highlightedPOI, highlightedMeshes,
                        listeners, userInteracting, isDragging,
                        interactionDisposed, controllerDisposed >>
        /\ UNCHANGED << tourVars, rigVars >>

\* POIHighlightManager.highlightPOI, hitting n meshes
HighlightPOI ==
    \E p \in Range(poiSequence), n \in 0..MaxMeshes :
        /\ highlightedPOI' = p
        /\ highlightedMeshes' = n
        /\ lastCall' = CallOf("highlightPOI")
        /\ UNCHANGED << cameraPosition, cameraDirection, target, clock,
                        cinematicAnimation, poiTransition, listeners,
                        userInteracting, isDragging, interactionDisposed,
                        controllerDisposed >>
        /\ UNCHANGED << tourVars, rigVars >>

\* a frame of the render loop calls updatePOITransition
UpdatePOITransition ==
    /\ poiTransition.exists
    /\ \E r \in { updatePOITransition(poiTransition, cameraPosition, cameraDirection,
                                       target, clock) } :
          /\ poiTransition' = r.transition
          /\ cameraPosition' = r.position
          /\ cameraDirection' = r.direction
          /\ target' = r.target
          /\ lastCall' = [CallOf("updatePOITransition") EXCEPT
                              !.ret = r.ret, !.completed = r.completed]
    /\ UNCHANGED << clock, cinematicAnimation, highlightedPOI, highlightedMeshes,
                    listeners, userInteracting, isDragging, interactionDisposed,
                    controllerDisposed >>
    /\ UNCHANGED << tourVars, rigVars >>

\* HelsinkiCameraController.setTarget
SetTarget ==
    \E t \in TargetInputs :
        /\ target' = t
        /\ lastCall' = CallOf("setTarget")
        /\ UNCHANGED << cameraPosition, cameraDirection, clock, cinematicAnimation,
                        poiTransition, highlightedPOI, highlightedMeshes, listeners,
                        userInteracting, isDragging, interactionDisposed,
                        controllerDisposed >>
        /\ UNCHANGED << tourVars, rigVars >>

\* what handleAnimationInterrupt reads and writes: the animation states, the
\* highlight manager's state, the camera and the controls target
Interruptible ==
    [cinematic |-> cinematicAnimation, transition |-> poiTransition,
     highlightedPOI |-> highlightedPOI, highlightedMeshes |-> highlightedMeshes,
     position |-> cameraPosition, direction |-> cameraDirection,
     target |-> target, ret |-> FALSE]

\* InteractionManager.handleAnimationInterrupt(cinematicAnimation,
\* poiTransition, w, onClearHighlights), onClearHighlights being the highlight
\* manager's clearHighlights
handleAnimationInterrupt(s, w) ==
    LET cinematic == s.cinematic.exists /\ s.cinematic.isPlaying
        animating == s.transition.exists /\ s.transition.isAnimating
        wasAnimating == cinematic \/ animating \/ w
    IN IF ~wasAnimating THEN [s EXCEPT !.ret = FALSE]
       ELSE [s EXCEPT
                !.cinematic = IF cinematic THEN [@ EXCEPT !.isPlaying = FALSE] ELSE @,
                !.transition = IF animating
                               THEN [cancelPOITransition(@) EXCEPT
                                         !.interrupted = TRUE, !.cleared = TRUE]
                               ELSE @,
                !.highlightedPOI = clearHighlights(s.highlightedPOI, s.highlightedMeshes),
                !.highlightedMeshes = 0,
                !.target = handoffTarget(s.position, s.direction, s.target),
                !.ret = TRUE]

HandleAnimationInterrupt ==
    \E w \in BOOLEAN :
        \E r \in { handleAnimationInterrupt(Interruptible, w) } :
           /\ r.ret => lastCall.interrupts < MaxInterrupts
           /\ cinematicAnimation' = r.cinematic
           /\ poiTransition' = r.transition
           /\ highlightedPOI' = r.highlightedPOI
           /\ highlightedMeshes' = r.highlightedMeshes
           /\ target' = r.target
           /\ lastCall' = IF r.ret
                          THEN [CallOf("handleAnimationInterrupt") EXCEPT
                                    !.ret = TRUE, !.cleared = TRUE,
                                    !.interrupts = @ + 1]
                          ELSE CallOf("handleAnimationInterrupt")
           /\ UNCHANGED << cameraPosition, cameraDirection, clock, listeners,
                           userInteracting, isDragging, interactionDisposed,
                           controllerDisposed >>
           /\ UNCHANGED << tourVars, rigVars >>

\* CameraInteractionListeners.resetInteractionFlag
ResetInteractionFlag ==
    /\ userInteracting
    /\ userInteracting' = FALSE
    /\ lastCall' = CallOf("resetInteractionFlag")
    /\ UNCHANGED << cameraPosition, cameraDirection, target, clock,
                    cinematicAnimation, poiTransition, highlightedPOI,
                    highlightedMeshes, listeners, isDragging, interactionDisposed,
                    controllerDisposed >>
    /\ UNCHANGED << tourVars, rigVars >>

\* the browser dispatches an event of type t to the element's listeners
DomEvent ==
    \E t \in EventTypes, button \in Buttons :
        LET hs == Handlers(listeners, t)
            onInterrupt == /\ "handleInteraction" \in hs
                           /\ (t = "pointerdown" => button = 0)
        IN /\ userInteracting' =
                  IF hs \cap {"handlePointerDown", "handleWheelInteraction",
                              "handleTouchStart"} # {}
                  THEN TRUE ELSE userInteracting
           /\ isDragging' =
                  IF "handlePointerDown" \in hs /\ button = 0 THEN TRUE
                  ELSE IF "handlePointerUp" \in hs THEN FALSE
                  ELSE isDragging
           /\ lastCall' = [CallOf("event") EXCEPT !.onInterrupt = onInterrupt]
           /\ UNCHANGED << cameraPosition, cameraDirection, target, clock,
                           cinematicAnimation, poiTransition, highlightedPOI,
                           highlightedMeshes, listeners, interactionDisposed,
                           controllerDisposed >>
           /\ UNCHANGED << tourVars, rigVars >>

\* InteractionManager.dispose
DisposeInteractionManager ==
    /\ ~interactionDisposed
    /\ listeners' = disposeInteractionManager(listeners)
    /\ interactionDisposed' = TRUE
    /\ lastCall' = CallOf("dispose")
    /\ UNCHANGED << cameraPosition, cameraDirection, target, clock,
                    cinematicAnimation, poiTransition, highlightedPOI,
                    highlightedMeshes, userInteracting, isDragging,
                    controllerDisposed >>
    /\ UNCHANGED << tourVars, rigVars >>

\* HelsinkiCameraController.dispose
DisposeController ==
    /\ ~controllerDisposed
    /\ listeners' = disposeListeners(listeners)
    /\ controllerDisposed' = TRUE
    /\ lastCall' = CallOf("dispose")
    /\ UNCHANGED << cameraPosition, cameraDirection, target, clock,
                    cinematicAnimation, poiTransition, highlightedPOI,
                    highlightedMeshes, userInteracting, isDragging,
                    interactionDisposed >>
    /\ UNCHANGED << tourVars, rigVars >>

InitInteract ==
    /\ Constructed({ s \in Sequences : s = << "A", "B" >> },
                   {DefaultInactivityTimeoutMs}, {DefaultFinalPoiPauseMs})
    /\ InteractConstructed

\* the render loop, POI focusing and its interruption
NextInteract ==
    \/ AdvanceClock
    \/ FocusPOI
    \/ UpdatePOITransition
    \/ SetTarget
    \/ HandleAnimationInterrupt

SpecInteract == InitInteract /\ [][NextInteract]_vars

\* the element's events and the teardown of the managers listening to them
NextTeardown ==
    \/ DomEvent
    \/ ResetInteractionFlag
    \/ PlayIntroAnimation
    \/ CinematicEnds
    \/ HighlightPOI
    \/ HandleAnimationInterrupt
    \/ DisposeInteractionManager
    \/ DisposeController

SpecTeardown == InitInteract /\ [][NextTeardown]_vars

-----------------------------------------------------------------------------
(* The animated scene's render loop: HelsinkiScene.update once per frame,    *)
(* the intro animation, the advanced camera backend and the element's input. *)

MaxFrames == 8            \* frames rendered

ControllerVariants == {"refactored", "unified"}

\* HelsinkiCameraController.enableAdvanced, the import succeeding
enableAdvanced(c) ==
    IF c.installedAdvanced THEN c
    ELSE [c EXCEPT !.cameraControls = TRUE, !.orbit = FALSE,
                   !.installedAdvanced = TRUE]

EnableAdvanced ==
    /\ ~controls.installedAdvanced
    /\ controls' = enableAdvanced(controls)
    /\ lastCall' = CallOf("enableAdvanced")
    /\ UNCHANGED << cameraPosition, cameraDirection, target, clock,
                    cinematicAnimation, poiTransition, highlightedPOI,
                    highlightedMeshes, listeners, userInteracting, isDragging,
                    interactionDisposed, controllerDisposed >>
    /\ UNCHANGED << velocity, rotationVelocity, lastMouseX, lastMouseY,
                    boundingBox, dragConfig, gesture, baseCameraPosition,
                    cameraTargetPosition, idleRotation, helsinkiModel, frame,
                    easing >>
    /\ UNCHANGED tourVars

\* HelsinkiViewer's animation loop: the clock runs on and HelsinkiScene.update
\* is called; throws: the advanced controller's update throws in this frame
Frame ==
    \E throws \in BOOLEAN :
        \E r \in { sceneUpdate(Rig, clock + TickMs, throws) } :
           /\ clock < MaxFrames * TickMs
           /\ clock' = clock + TickMs
           /\ cameraPosition' = r.d.position
           /\ cameraDirection' = r.d.direction
           /\ target' = r.proxy
           /\ cinematicAnimation' = r.cinematic
           /\ idleRotation' = r.idle
           /\ controls' = r.controls
           /\ baseCameraPosition' = r.base
           /\ cameraTargetPosition' = r.ctp
           /\ velocity' = r.d.velocity
           /\ rotationVelocity' = r.d.rotationVelocity
           /\ frame' = [writers |-> r.writers,
                        animated |-> r.animated,
                        interrupted |-> frame.interrupted \cup
                            (IF userInteracting THEN ActiveAnimations ELSE {}),
                        threw |-> r.threw,
                        fellBack |-> frame.fellBack \/ r.threw,
                        drove |-> r.drove]
           /\ lastCall' = CallOf("update")
           /\ UNCHANGED << poiTransition, highlightedPOI, highlightedMeshes,
                           listeners, userInteracting, isDragging,
                           interactionDisposed, controllerDisposed >>
           /\ UNCHANGED << lastMouseX, lastMouseY, boundingBox, dragConfig,
                           gesture, helsinkiModel, easing >>
           /\ UNCHANGED tourVars

\* the animated scene as constructed: the camera at CAMERA_BASE, the
\* controller's listeners on the element, no interaction manager
InitFrame ==
    /\ Constructed({ s \in Sequences : s = << "A", "B" >> },
                   {DefaultInactivityTimeoutMs}, {DefaultFinalPoiPauseMs})
    /\ cameraPosition = CameraBasePosition
    /\ target = CameraBaseTarget
    /\ cameraDirection = VSub(CameraBaseTarget, CameraBasePosition)
    /\ clock = 0
    /\ cinematicAnimation = NoCinematic
    /\ poiTransition = NoTransition
    /\ highlightedPOI = "null"
    /\ highlightedMeshes = 0
    /\ listeners = ControllerListeners
    /\ userInteracting = FALSE
    /\ isDragging = FALSE
    /\ interactionDisposed = FALSE
    /\ controllerDisposed = FALSE
    /\ lastCall = NoCall
    /\ velocity = Origin /\ rotationVelocity = 0
    /\ lastMouseX = 0 /\ lastMouseY = 0
    /\ boundingBox = NoBox
    /\ dragConfig = DefaultDragConfig
    /\ gesture = NoGesture
    /\ controls \in { [OrbitBackend EXCEPT !.variant = v] : v \in ControllerVariants }
    /\ baseCameraPosition = cameraPosition
    /\ cameraTargetPosition = cameraPosition
    /\ idleRotation = NoIdleRotation
    /\ helsinkiModel = TRUE
    /\ frame = NoFrame
    /\ easing = NoEasing

NextFrame ==
    \/ PlayIntroAnimation
    \/ EnableAdvanced
    \/ DomEvent
    \/ Frame

SpecFrame == InitFrame /\ [][NextFrame]_vars

-----------------------------------------------------------------------------
(* DragControls under pointer gestures: pointer-down, pointer-move and        *)
(* pointer-up on the element, applyMomentum once per frame.                   *)

MaxMoves == 3             \* pointer moves

MaxMomentumFrames == 3    \* frames of momentum

PointerXs == {0, 10}      \* clientX, pixels

PointerYs == {0, 400}     \* clientY, pixels

\* the scene's managers and animations at rest
SceneAtRest ==
    /\ Constructed({ s \in Sequences : s = << "A", "B" >> },
                   {DefaultInactivityTimeoutMs}, {DefaultFinalPoiPauseMs})
    /\ clock = 0
    /\ cinematicAnimation = NoCinematic
    /\ poiTransition = NoTransition
    /\ highlightedPOI = "null"
    /\ highlightedMeshes = 0
    /\ listeners = ControllerListeners
    /\ userInteracting = FALSE
    /\ interactionDisposed = FALSE
    /\ controllerDisposed = FALSE
    /\ lastCall = NoCall
    /\ controls = OrbitBackend
    /\ idleRotation = NoIdleRotation
    /\ helsinkiModel = TRUE
    /\ frame = NoFrame
    /\ easing = NoEasing

SetDrag(d) ==
    /\ isDragging' = d.isDragging
    /\ velocity' = d.velocity
    /\ rotationVelocity' = d.rotationVelocity
    /\ lastMouseX' = d.lastMouseX
    /\ lastMouseY' = d.lastMouseY
    /\ cameraPosition' = d.position
    /\ cameraDirection' = d.direction
    /\ target' = d.target

\* what a drag operation leaves alone
DragUnchanged ==
    /\ UNCHANGED << clock, cinematicAnimation, poiTransition, highlightedPOI,
                    highlightedMeshes, listeners, userInteracting,
                    interactionDisposed, controllerDisposed, lastCall >>
    /\ UNCHANGED << boundingBox, dragConfig, controls, baseCameraPosition,
                    cameraTargetPosition, idleRotation, helsinkiModel, frame,
                    easing >>
    /\ UNCHANGED tourVars

\* pointerdown with the primary button: DragControls.startDrag
StartDrag ==
    \E x \in PointerXs, y \in PointerYs :
        /\ SetDrag(startDrag(Drag, x, y))
        /\ gesture' = [gesture EXCEPT !.op = "startDrag"]
        /\ DragUnchanged

\* pointermove: DragControls.handlePointerMove
PointerMove ==
    \E x \in PointerXs, y \in PointerYs, buttons \in {0, 1} :
        LET drags == isDragging /\ buttons = 1 /\ dragConfig.enabled
        IN /\ gesture.moves < MaxMoves
           /\ SetDrag(handlePointerMove(Drag, x, y, buttons, boundingBox, dragConfig))
           /\ gesture' = [gesture EXCEPT
                              !.netX = IF drags THEN @ + (x - lastMouseX) ELSE @,
                              !.netY = IF drags THEN @ + (y - lastMouseY) ELSE @,
                              !.moves = @ + 1,
                              !.op = IF drags THEN "drag" ELSE "move"]
           /\ DragUnchanged

\* pointerup, pointerleave, touchend: DragControls.stopDrag
StopDrag ==
    /\ SetDrag(stopDrag(Drag))
    /\ gesture' = [gesture EXCEPT !.op = "stopDrag"]
    /\ DragUnchanged

\* a frame: DragControls.applyMomentum
ApplyMomentum ==
    /\ gesture.frames < MaxMomentumFrames
    /\ SetDrag(applyMomentum(Drag, boundingBox, dragConfig))
    /\ gesture' = [gesture EXCEPT !.frames = @ + 1, !.op = "applyMomentum"]
    /\ DragUnchanged

\* poses in bounds, near the bound the camera faces: without a bounding box
\* (the static map bounds apply) and inside a bounding box
DragStarts ==
    { [position |-> Vec(0, 48 * Milli, 1000 * Milli),
       target |-> Vec(0, 0, 1090 * Milli), box |-> NoBox],
      [position |-> Vec(0, 48 * Milli, 100 * Milli),
       target |-> Vec(0, 0, 190 * Milli), box |-> Box(-200 * Milli, 200 * Milli)] }

InitDrag ==
    /\ SceneAtRest
    /\ \E s \in DragStarts :
           /\ cameraPosition = s.position
           /\ target = s.target
           /\ boundingBox = s.box
    /\ cameraDirection = VSub(target, cameraPosition)
    /\ isDragging = FALSE
    /\ velocity = Origin /\ rotationVelocity = 0
    /\ lastMouseX = 0 /\ lastMouseY = 0
    /\ dragConfig = DefaultDragConfig
    /\ gesture = NoGesture
    /\ baseCameraPosition = cameraPosition
    /\ cameraTargetPosition = cameraPosition

NextDrag ==
    \/ StartDrag
    \/ PointerMove
    \/ StopDrag
    \/ ApplyMomentum

SpecDrag == InitDrag /\ [][NextDrag]_vars

-----------------------------------------------------------------------------
(* Momentum after a release: applyMomentum frame after frame, from the        *)
(* velocities a drag may have left.                                           *)

ReleaseVelocities == { Origin, Vec(0, 0, 40 * Milli), Vec(-3 * Milli, 0, 4 * Milli), Vec(0, 0, -2) }

ReleaseRotationVelocities == { 0, 3000, -120000 }

\* a frame with no drag in progress: DragControls.applyMomentum
MomentumFrame ==
    /\ SetDrag(applyMomentum(Drag, boundingBox, dragConfig))
    /\ gesture' = [gesture EXCEPT !.op = "applyMomentum"]
    /\ DragUnchanged

InitMomentum ==
    /\ SceneAtRest
    /\ \E s \in DragStarts :
           /\ cameraPosition = s.position
           /\ target = s.target
           /\ boundingBox = s.box
    /\ cameraDirection = VSub(target, cameraPosition)
    /\ isDragging = FALSE
    /\ velocity \in ReleaseVelocities
    /\ rotationVelocity \in ReleaseRotationVelocities
    /\ lastMouseX = 0 /\ lastMouseY = 0
    /\ dragConfig = DefaultDragConfig
    /\ gesture = NoGesture
    /\ baseCameraPosition = cameraPosition
    /\ cameraTargetPosition = cameraPosition

\* the render loop keeps calling update
SpecMomentum == InitMomentum /\ [][MomentumFrame]_vars /\ WF_vars(MomentumFrame)

-----------------------------------------------------------------------------
(* BoundaryEasing.calculateGeneric called for a constrained quantity: the
   limits (minDistance and maxDistance, the polar or the azimuth limits) and
   the soft zone are the configuration's, the current value and the direction
   of the movement change from call to call *)

MaxValue == 10            \* values, minima and maxima range over 0..MaxValue

Values == 0..MaxValue

SoftBoundaryZones == { DefaultSoftBoundaryZone, Frac(1, 2) }

CalculateGeneric ==
    \E c \in Values, towardsMin \in BOOLEAN :
        /\ easing' = [easing EXCEPT
                          !.currentValue = c,
                          !.movingTowardsMin = towardsMin,
                          !.value = calculateGeneric(c, easing.minValue, easing.maxValue,
                                                     towardsMin, easing.softBoundaryZone),
                          !.called = TRUE]
        /\ UNCHANGED << tourVars, interactVars >>
        /\ UNCHANGED << velocity, rotationVelocity, lastMouseX, lastMouseY,
                        boundingBox, dragConfig, gesture, controls,
                        baseCameraPosition, cameraTargetPosition, idleRotation,
                        helsinkiModel, frame >>

InitEasing ==
    /\ Constructed({ s \in Sequences : s = << "A", "B" >> },
                   {DefaultInactivityTimeoutMs}, {DefaultFinalPoiPauseMs})
    /\ cameraPosition = CameraBasePosition
    /\ target = CameraBaseTarget
    /\ cameraDirection = VSub(target, cameraPosition)
    /\ clock = 0
    /\ cinematicAnimation = NoCinematic
    /\ poiTransition = NoTransition
    /\ highlightedPOI = "null"
    /\ highlightedMeshes = 0
    /\ listeners = ControllerListeners
    /\ userInteracting = FALSE
    /\ isDragging = FALSE
    /\ interactionDisposed = FALSE
    /\ controllerDisposed = FALSE
    /\ lastCall = NoCall
    /\ velocity = Origin /\ rotationVelocity = 0
    /\ lastMouseX = 0 /\ lastMouseY = 0
    /\ boundingBox = NoBox
    /\ dragConfig = DefaultDragConfig
    /\ gesture = NoGesture
    /\ controls = OrbitBackend
    /\ baseCameraPosition = cameraPosition
    /\ cameraTargetPosition = cameraPosition
    /\ idleRotation = NoIdleRotation
    /\ helsinkiModel = TRUE
    /\ frame = NoFrame
    /\ easing \in { [NoEasing EXCEPT !.minValue = lo, !.maxValue = hi,
                                      !.softBoundaryZone = z] :
                        lo \in Values, hi \in Values, z \in SoftBoundaryZones }

SpecEasing == InitEasing /\ [][CalculateGeneric]_vars

-----------------------------------------------------------------------------
(* The scene's calls that take a name: focusPOI, applyCameraPreset and
   highlightPOI, with names of the tables and names unknown to them *)

LookupCall(op, known, threw) ==
    [CallOf(op) EXCEPT !.known = known, !.threw = threw,
                       !.dirBefore = cameraDirection,
                       !.highlightBefore = highlightedPOI,
                       !.meshesBefore = highlightedMeshes]

LookupUnchanged ==
    /\ UNCHANGED << clock, cinematicAnimation, poiTransition, listeners,
                    userInteracting, isDragging, interactionDisposed,
                    controllerDisposed >>
    /\ UNCHANGED << tourVars, rigVars >>

SceneFocusPOI ==
    \E poiName \in POIs \cup UnknownNames :
        LET r == focusPOI(poiName, FocusDistance, 90, FocusElevation,
                          cameraPosition, cameraDirection, target)
        IN /\ cameraPosition' = r.position
           /\ cameraDirection' = r.direction
           /\ target' = r.target
           /\ lastCall' = LookupCall("focusPOI", poiName \in POIs, r.threw)
           /\ UNCHANGED << highlightedPOI, highlightedMeshes >>
           /\ LookupUnchanged

SceneApplyCameraPreset ==
    \E presetName \in PresetNames \cup UnknownNames :
        LET r == applyCameraPreset(presetName, cameraPosition, cameraDirection, target)
        IN /\ cameraPosition' = r.position
           /\ cameraDirection' = r.direction
           /\ target' = r.target
           /\ lastCall' = LookupCall("applyCameraPreset", presetName \in PresetNames,
                                     r.threw)
           /\ UNCHANGED << highlightedPOI, highlightedMeshes >>
           /\ LookupUnchanged

SceneHighlightPOI ==
    \E poiName \in POIs \cup UnknownNames, n \in 0..MaxMeshes :
        LET r == highlightPOI(poiName, n, highlightedPOI, highlightedMeshes,
                              helsinkiModel)
        IN /\ highlightedPOI' = r.poi
           /\ highlightedMeshes' = r.meshes
           /\ lastCall' = LookupCall("highlightPOI", poiName \in POIs, r.threw)
           /\ UNCHANGED << cameraPosition, cameraDirection, target >>
           /\ LookupUnchanged

NextLookup ==
    \/ SceneFocusPOI
    \/ SceneApplyCameraPreset
    \/ SceneHighlightPOI

SpecLookup == InitInteract /\ [][NextLookup]_vars

-----------------------------------------------------------------------------
(* The InteractionManager's listeners under whole user gestures: a touch, a
   click with the left or another button, a scroll of several wheel events *)

MaxWheelEvents == 2       \* wheel events of one scroll

GestureKinds == {"touch", "click", "otherClick", "scroll"}

Event(t, button) == [type |-> t, button |-> button]

\* the events a gesture produces on the element, in order
EventsOf(kind, wheels) ==
    CASE kind = "touch" -> << Event("pointerdown", 0), Event("touchstart", 0),
                              Event("touchend", 0) >>
      [] kind = "click" -> << Event("pointerdown", 0), Event("pointerup", 0) >>
      [] kind = "otherClick" -> << Event("pointerdown", 2), Event("pointerup", 2) >>
      [] OTHER -> [i \in 1..wheels |-> Event("wheel", 0)]

\* InteractionManager.setupEventListeners: whether the manager's listener for
\* the event calls handleInteraction, which invokes callbacks.onInterrupt
invokesOnInterrupt(ls, ev) ==
    /\ "handleInteraction" \in Handlers(ls, ev.type)
    /\ (ev.type = "pointerdown" => ev.button = 0)

\* an animated state is active: what handleAnimationInterrupt would stop
AnimatedStateActive ==
    \/ cinematicAnimation.exists /\ cinematicAnimation.isPlaying
    \/ poiTransition.exists /\ poiTransition.isAnimating
    \/ isWaitingForNextPOI

rigRest == << velocity, rotationVelocity, lastMouseX, lastMouseY, boundingBox,
              dragConfig, controls, baseCameraPosition, cameraTargetPosition,
              idleRotation, helsinkiModel, frame, easing >>

\* the user begins a gesture
BeginGesture ==
    \E kind \in GestureKinds, wheels \in 1..MaxWheelEvents :
        /\ gesture.pending = << >>
        /\ gesture' = [gesture EXCEPT !.kind = kind,
                                      !.pending = EventsOf(kind, wheels),
                                      !.onInterrupts = 0]
        /\ lastCall' = CallOf("gesture")
        /\ UNCHANGED << cameraPosition, cameraDirection, target, clock,
                        cinematicAnimation, poiTransition, highlightedPOI,
                        highlightedMeshes, listeners, userInteracting, isDragging,
                        interactionDisposed, controllerDisposed >>
        /\ UNCHANGED << tourVars, rigRest >>

\* the browser dispatches the gesture's next event to the element's listeners
DispatchGestureEvent ==
    /\ gesture.pending # << >>
    /\ \E ev \in { Head(gesture.pending) } :
       \E hs \in { Handlers(listeners, ev.type) } :
       \E invoked \in { invokesOnInterrupt(listeners, ev) } :
           /\ gesture' = [gesture EXCEPT
                              !.pending = Tail(@),
                              !.onInterrupts = IF invoked THEN @ + 1 ELSE @,
                              !.idleInvoked = @ \/ (invoked /\ ~AnimatedStateActive),
                              !.otherButtonInvoked = @ \/ (invoked /\ ev.button # 0)]
           /\ userInteracting' =
                  IF hs \cap {"handlePointerDown", "handleWheelInteraction",
                              "handleTouchStart"} # {}
                  THEN TRUE ELSE userInteracting
           /\ isDragging' =
                  IF "handlePointerDown" \in hs /\ ev.button = 0 THEN TRUE
                  ELSE IF "handlePointerUp" \in hs THEN FALSE
                  ELSE isDragging
           /\ lastCall' = [CallOf("event") EXCEPT !.onInterrupt = invoked]
    /\ UNCHANGED << cameraPosition, cameraDirection, target, clock,
                    cinematicAnimation, poiTransition, highlightedPOI,
                    highlightedMeshes, listeners, interactionDisposed,
                    controllerDisposed >>
    /\ UNCHANGED << tourVars, rigRest >>

NextGesture ==
    \/ BeginGesture
    \/ DispatchGestureEvent
    \/ ResetInteractionFlag
    \/ PlayIntroAnimation
    \/ CinematicEnds

SpecGesture == InitInteract /\ [][NextGesture]_vars

-----------------------------------------------------------------------------
(* The idle rotation after the cinematic animation: frames of the render loop,
   the user's input on the element, and resetInteractionFlag *)

MaxIdleFrames == 20       \* frames of the render loop

ResumeDelayMs == 8000     \* IDLE_ROTATION.resumeDelay

\* one frame of the render loop, the advanced controller absent
IdleFrame ==
    /\ clock < MaxIdleFrames * TickMs
    /\ \E r \in { sceneUpdate(Rig, clock + TickMs, FALSE) } :
           /\ clock' = clock + TickMs
           /\ cameraPosition' = r.d.position
           /\ cameraDirection' = r.d.direction
           /\ target' = r.proxy
           /\ cinematicAnimation' = r.cinematic
           /\ idleRotation' = r.idle
           /\ controls' = r.controls
           /\ baseCameraPosition' = r.base
           /\ cameraTargetPosition' = r.ctp
           /\ velocity' = r.d.velocity
           /\ rotationVelocity' = r.d.rotationVelocity
           /\ frame' = [frame EXCEPT !.writers = r.writers,
                                     !.animated = r.animated,
                                     !.drove = r.drove]
           /\ lastCall' = CallOf(IF idleRotation.isPaused /\ ~r.idle.isPaused
                                 THEN "resumeIdleRotation" ELSE "update")
    /\ UNCHANGED << poiTransition, highlightedPOI, highlightedMeshes,
                    listeners, userInteracting, isDragging,
                    interactionDisposed, controllerDisposed >>
    /\ UNCHANGED << lastMouseX, lastMouseY, boundingBox, dragConfig,
                    gesture, helsinkiModel, easing >>
    /\ UNCHANGED tourVars

\* the user's input: a wheel event or the start of a touch
IdleInput ==
    \E t \in {"wheel", "touchstart"} :
    \E hs \in { Handlers(listeners, t) } :
        /\ userInteracting' =
               IF hs \cap {"handlePointerDown", "handleWheelInteraction",
                           "handleTouchStart"} # {}
               THEN TRUE ELSE userInteracting
        /\ gesture' = [gesture EXCEPT !.lastInputTime = clock]
        /\ lastCall' = CallOf("event")
        /\ UNCHANGED << cameraPosition, cameraDirection, target, clock,
                        cinematicAnimation, poiTransition, highlightedPOI,
                        highlightedMeshes, listeners, isDragging,
                        interactionDisposed, controllerDisposed >>
        /\ UNCHANGED << tourVars, rigRest >>

\* the scene once the cinematic animation is over and the idle rotation,
\* created from the camera's pose about the map centre, has taken over
IdleRotating(backend) ==
    /\ Constructed({ s \in Sequences : s = << "A", "B" >> },
                   {DefaultInactivityTimeoutMs}, {DefaultFinalPoiPauseMs})
    /\ cameraPosition = CameraBasePosition
    /\ target = Origin
    /\ cameraDirection = VSub(Origin, CameraBasePosition)
    /\ clock = 0
    /\ cinematicAnimation = [exists |-> TRUE, isPlaying |-> FALSE, startTime |-> 0]
    /\ poiTransition = NoTransition
    /\ highlightedPOI = "null"
    /\ highlightedMeshes = 0
    /\ listeners = ControllerListeners
    /\ userInteracting = FALSE
    /\ isDragging = FALSE
    /\ interactionDisposed = FALSE
    /\ controllerDisposed = FALSE
    /\ lastCall = NoCall
    /\ velocity = Origin /\ rotationVelocity = 0
    /\ lastMouseX = 0 /\ lastMouseY = 0
    /\ boundingBox = NoBox
    /\ dragConfig = DefaultDragConfig
    /\ gesture = NoGesture
    /\ controls = backend
    /\ baseCameraPosition = cameraPosition
    /\ cameraTargetPosition = cameraPosition
    /\ idleRotation = createIdleRotation(CameraBasePosition, Origin, 0)
    /\ helsinkiModel = TRUE
    /\ frame = NoFrame
    /\ easing = NoEasing

NextIdle ==
    \/ IdleFrame
    \/ IdleInput
    \/ ResetInteractionFlag

\* the scene with the controller as it is
SpecIdle == IdleRotating(OrbitBackend) /\ [][NextIdle]_vars

\* the scene with controls whose shouldResumeIdle() returns true
SpecResume ==
    IdleRotating([OrbitBackend EXCEPT !.shouldResumeIdle = "true"]) /\ [][NextIdle]_vars

-----------------------------------------------------------------------------
(* DragControls under pointer gestures, constructed enabled or disabled.     *)

InitPivot ==
    /\ SceneAtRest
    /\ \E s \in DragStarts :
           /\ cameraPosition = s.position
           /\ target = s.target
           /\ boundingBox = s.box
    /\ cameraDirection = VSub(target, cameraPosition)
    /\ isDragging = FALSE
    /\ velocity = Origin /\ rotationVelocity = 0
    /\ lastMouseX = 0 /\ lastMouseY = 0
    /\ dragConfig \in { [DefaultDragConfig EXCEPT !.enabled = on] : on \in BOOLEAN }
    /\ gesture = NoGesture
    /\ baseCameraPosition = cameraPosition
    /\ cameraTargetPosition = cameraPosition

SpecPivot == InitPivot /\ [][NextDrag]_vars

-----------------------------------------------------------------------------
(* The tour stopped and started again by its owner: stop(), then start(cb)   *)
(* with the driver's callback.                                               *)

\* the owner calls stop()
StopTour ==
    /\ tour.started
    /\ SetMgr(stop(Mgr))
    /\ tour' = [tour EXCEPT !.started = FALSE, !.justVisited = FALSE]
    /\ lastFire' = NoFire
    /\ UNCHANGED << config, disposed, interactVars, rigVars >>

NextRestart ==
    \/ StartTour
    \/ StopTour
    \/ FireTour
    \/ Tick

SpecRestart == DefaultConfig /\ [][NextRestart]_vars

-----------------------------------------------------------------------------
(* The render loop with enableAdvanced() called at any time, the dynamic     *)
(* import succeeding or failing.                                             *)

\* the value enableAdvanced() resolves to; imports: the import succeeds
enableAdvancedResult(c, imports) == c.installedAdvanced \/ imports

\* HelsinkiCameraController.enableAdvanced
CallEnableAdvanced ==
    \E imports \in BOOLEAN :
        /\ controls' = IF imports THEN enableAdvanced(controls) ELSE controls
        /\ lastCall' = [CallOf("enableAdvanced") EXCEPT
                            !.ret = enableAdvancedResult(controls, imports)]
        /\ UNCHANGED << cameraPosition, cameraDirection, target, clock,
                        cinematicAnimation, poiTransition, highlightedPOI,
                        highlightedMeshes, listeners, userInteracting, isDragging,
                        interactionDisposed, controllerDisposed >>
        /\ UNCHANGED << velocity, rotationVelocity, lastMouseX, lastMouseY,
                        boundingBox, dragConfig, gesture, baseCameraPosition,
                        cameraTargetPosition, idleRotation, helsinkiModel, frame,
                        easing >>
        /\ UNCHANGED tourVars

NextAdvanced ==
    \/ PlayIntroAnimation
    \/ CallEnableAdvanced
    \/ DomEvent
    \/ Frame

SpecAdvanced == InitFrame /\ [][NextAdvanced]_vars

-----------------------------------------------------------------------------
(* Drags after a release: the momentum of a release carries the camera on,   *)
(* frame after frame, and the user drags again once it has come to rest.     *)

\* pointerdown with the primary button, the camera at rest
DragAtRest ==
    /\ velocity = Origin
    /\ rotationVelocity = 0
    /\ StartDrag

\* inside the bounding box, at rest or just released with a pan velocity
\* that carries the camera to the box's edge
InitEdge ==
    /\ SceneAtRest
    /\ \E s \in { t \in DragStarts : t.box.set } :
           /\ cameraPosition = s.position
           /\ target = s.target
           /\ boundingBox = s.box
    /\ cameraDirection = VSub(target, cameraPosition)
    /\ isDragging = FALSE
    /\ velocity \in { Origin, Vec(0, 0, 40 * Milli) }
    /\ rotationVelocity = 0
    /\ lastMouseX = 0 /\ lastMouseY = 0
    /\ dragConfig = DefaultDragConfig
    /\ gesture = NoGesture
    /\ baseCameraPosition = cameraPosition
    /\ cameraTargetPosition = cameraPosition

NextEdge ==
    \/ MomentumFrame
    \/ DragAtRest
    \/ PointerMove
    \/ StopDrag

SpecEdge == InitEdge /\ [][NextEdge]_vars

-----------------------------------------------------------------------------
(* POIHighlightManager under highlightPOI() and clearHighlights() calls in   *)
(* any order, a highlight hitting any number of meshes, none included.       *)

\* POIHighlightManager.clearHighlights()
ClearHighlights ==
    /\ highlightedPOI' = clearHighlights(highlightedPOI, highlightedMeshes)
    /\ highlightedMeshes' = 0
    /\ lastCall' = LookupCall("clearHighlights", TRUE, FALSE)
    /\ UNCHANGED << cameraPosition, cameraDirection, target >>
    /\ LookupUnchanged

NextHighlight ==
    \/ SceneHighlightPOI
    \/ ClearHighlights

SpecHighlight == InitInteract /\ [][NextHighlight]_vars

-----------------------------------------------------------------------------
(* Claims about the auto-tour *)

\* every visit is the next POI of the sequence, after the configured wait
TourOrder ==
    tour.justVisited =>
        /\ tour.visited = poiSequence[tour.pos]
        /\ tour.pos = (tour.prevPos % Len(poiSequence)) + 1
        /\ currentIndex = tour.pos
        /\ tour.gap = IF tour.prevPos = 0 THEN StartDelayMs
                      ELSE IF tour.pos = 1 THEN finalPoiPause
                      ELSE ScheduleDelayMs

\* C1: with no user interaction the driven tour visits the POIs of
\* poiSequence in order, the first one 1.5 s after start(), each next one
\* 1.5 s after the one before, and after the last one and the final pause
\* (3 s) it restarts at the first with currentIndex reset to 0; no POI is
\* skipped or repeated within a cycle, and every POI of the sequence is
\* visited again and again.
TourCycle ==
    /\ []TourOrder
    /\ \A p \in POIs :
          []<>(p \in Range(poiSequence) => tour.justVisited /\ tour.visited = p)

\* the tour [A, B, C] has restarted at A after the final pause
TourCycleWitness ==
    /\ poiSequence = << "A", "B", "C" >>
    /\ tour.justVisited
    /\ tour.visited = "A"
    /\ tour.prevPos = 3
    /\ tour.gap = DefaultFinalPoiPauseMs
    /\ currentIndex = 1

\* the index the tour resumes from after an interruption at idxAtStop
ResumeIndex == IF tour.idxAtStop >= Len(poiSequence) THEN 0 ELSE tour.idxAtStop

\* C2: after stop() and startInactivityTimer(onResume) with no further
\* interaction, onResume is invoked exactly once, inactivityTimeout + 500 ms
\* after the call and not before, with the tour enabled and currentIndex the
\* index preserved by stop(), or 0 if the tour was complete.
ResumeOnce ==
    (tour.armed /\ ~tour.recorded) =>
        /\ tour.resumes <= 1
        /\ tour.sinceInput < ResumeHorizonMs => tour.resumes = 0
        /\ tour.sinceInput > ResumeHorizonMs => tour.resumes = 1
        /\ tour.sinceInput > inactivityTimeout => enabled
        /\ tour.resumes = 1 =>
              /\ tour.resumeAt = ResumeHorizonMs
              /\ tour.enabledAtResume
              /\ tour.idxAtResume = ResumeIndex

\* a tour interrupted during its final pause has just resumed from index 0
ResumeOnceWitness ==
    /\ tour.armed /\ ~tour.recorded
    /\ lastFire.cb = "onResume"
    /\ tour.resumes = 1
    /\ tour.idxAtStop = Len(poiSequence)
    /\ tour.idxAtResume = 0
    /\ tour.visited = poiSequence[1]

\* C3: after startInactivityTimer(onResume) and one or more
\* recordInteraction() calls, once a full inactivityTimeout (and the 500 ms
\* grace delay) has passed since the last of them with no interaction, the
\* tour has been re-enabled and onResume invoked.
RecordRestartsWindow ==
    (tour.armed /\ tour.recorded /\ tour.sinceInput > ResumeHorizonMs) =>
        (enabled /\ tour.resumes >= 1)

\* C4: onResume is never invoked when less than inactivityTimeout has passed
\* since the most recent recordInteraction() or startInactivityTimer() call,
\* the 500 ms grace delay included.
NoResumeWhileInteracting ==
    lastFire.cb = "onResume" => timeSinceLastInteraction >= inactivityTimeout

\* C5: after stop() has returned, no callback of a tour timer scheduled
\* before it is invoked.
StopCancelsEveryTimer ==
    (lastFire.cancelled /\ ~disposed) => lastFire.cb = "none"

\* C6: once dispose() has returned no timer is pending and no tour callback
\* is invoked.
NoDanglingTimers ==
    disposed => (Pending(timers) = {} /\ lastFire.cb = "none")

\* C8: a timer that fires after its owning state has changed (stop() or
\* dispose() was called, or a newer timer took its handle) invokes no tour
\* callback and changes none of enabled, currentIndex and the waiting flag.
StaleTimerIsNoOp ==
    lastFire.stale => (lastFire.cb = "none" /\ ~lastFire.changed)

-----------------------------------------------------------------------------
(* Claims about interruption and teardown *)

\* C9: whenever handleAnimationInterrupt() returns true the camera position is
\* what it was before the call and the new controls target has Y >= 10; when it
\* returns false neither the camera position nor the target has changed.
HandoffInvariant ==
    lastCall.op = "handleAnimationInterrupt" =>
        IF lastCall.ret
        THEN cameraPosition = lastCall.posBefore /\ target.y >= MinTargetY
        ELSE cameraPosition = lastCall.posBefore /\ target = lastCall.targetBefore

\* an interrupt was performed and the height floor decided the target
HandoffWitness ==
    /\ lastCall.op = "handleAnimationInterrupt"
    /\ lastCall.ret
    /\ target.y = MinTargetY
    /\ target # lastCall.targetBefore
    /\ handoffTargetUnclamped(lastCall.posBefore, cameraDirection,
                              lastCall.targetBefore).y < MinTargetY

\* C10: once handleAnimationInterrupt() was called while a POI transition was
\* animating, every later updatePOITransition() on that transition leaves
\* camera position and target unchanged and never invokes onComplete, and the
\* highlight-clearing callback has been invoked.
InterruptHaltsTransition ==
    poiTransition.interrupted =>
        /\ poiTransition.cleared
        /\ poiTransition.completions = 0
        /\ lastCall.op = "updatePOITransition" =>
               /\ cameraPosition = lastCall.posBefore
               /\ target = lastCall.targetBefore
               /\ ~lastCall.completed

\* an interrupted transition was updated at a time at which it would otherwise
\* have moved the camera
InterruptHaltsWitness ==
    /\ poiTransition.interrupted
    /\ lastCall.op = "updatePOITransition"
    /\ clock > poiTransition.startTime
    /\ cameraPosition # poiTransition.targetPosition
    /\ updatePOITransition([poiTransition EXCEPT !.isAnimating = TRUE],
                           cameraPosition, cameraDirection, target,
                           clock).position # cameraPosition

\* C7: after dispose() of the interaction manager and of the camera
\* controller, a pointer-down, touch-start or wheel event neither invokes
\* onInterrupt nor changes the drag / interaction state.
TeardownRemovesListeners ==
    (interactionDisposed /\ controllerDisposed /\ lastCall.op = "event") =>
        /\ ~lastCall.onInterrupt
        /\ userInteracting = lastCall.interactingBefore
        /\ isDragging = lastCall.draggingBefore

-----------------------------------------------------------------------------
(* Claims about the frame *)

\* C11: in every frame at most one driver (drag momentum, cinematic intro,
\* idle rotation, POI transition) writes the camera pose, at most one
\* animation state is active at any time, and the controller's own per-frame
\* update does not overwrite a position written by the active animation.
SingleCameraWriter ==
    /\ Cardinality(frame.writers \cap Drivers) <= 1
    /\ Cardinality(ActiveAnimations) <= 1
    /\ (lastCall.op = "update" /\ frame.writers \cap Drivers # {}) =>
           cameraPosition = frame.animated

\* C12: once a pointer-down, touch-start or wheel input has been observed
\* while an animation is active, that animation does not write the camera in
\* the same frame nor in any later one, and it is no longer active.
InterruptionPrecedesAdvance ==
    \A a \in frame.interrupted :
        /\ a \notin frame.writers
        /\ a \notin ActiveAnimations

\* C19: if the advanced controller throws during update(), the advanced
\* controller is discarded and a baseline controller installed, and every
\* later update() drives the baseline controller.
ControllerFallback ==
    lastCall.op = "update" =>
        /\ frame.threw => (~controls.cameraControls /\ controls.orbit)
        /\ (frame.fellBack /\ ~frame.threw) => frame.drove = "orbit"

\* C13: a POI transition that is not cancelled returns true from every update
\* with progress < 100%, signals completion (returns false, invokes
\* onComplete) once, at the first update with progress >= 100%, with the
\* camera exactly at targetPosition and the target exactly at targetLookAt,
\* and never invokes onComplete again.
CompletionSignalledOnce ==
    /\ poiTransition.completions <= 1
    /\ (lastCall.op = "updatePOITransition" /\ ~poiTransition.interrupted) =>
           /\ clock - poiTransition.startTime < poiTransition.duration =>
                  (lastCall.ret /\ ~lastCall.completed)
           /\ lastCall.completed =>
                  /\ ~lastCall.ret
                  /\ clock - poiTransition.startTime >= poiTransition.duration
                  /\ cameraPosition = poiTransition.targetPosition
                  /\ target = poiTransition.targetLookAt

\* C14: calling stopDrag(), cancelPOITransition(), stopIdleRotation(),
\* AutoTourManager.stop() or handleAnimationInterrupt() a second time
\* immediately after the first leaves every observable field as the first call
\* left it.
IdempotentCancellation ==
    /\ stopDrag(stopDrag(Drag)) = stopDrag(Drag)
    /\ cancelPOITransition(cancelPOITransition(poiTransition)) =
           cancelPOITransition(poiTransition)
    /\ stopIdleRotation(stopIdleRotation(idleRotation)) = stopIdleRotation(idleRotation)
    /\ stop(stop(Mgr)) = stop(Mgr)
    /\ \A w \in BOOLEAN :
           LET once == handleAnimationInterrupt(Interruptible, w)
               twice == handleAnimationInterrupt(once, w)
           IN [twice EXCEPT !.ret = once.ret] = once

-----------------------------------------------------------------------------
(* Claims about dragging *)

\* C15: after any sequence of startDrag / pointer-move / stopDrag gestures
\* whose pointer deltas sum to zero, momentum from an earlier drag still
\* decaying or not, the pan velocity and the rotation velocity after the final
\* stopDrag are exactly zero.
ZeroNetMovementZeroMomentum ==
    (gesture.op = "stopDrag" /\ gesture.netX = 0 /\ gesture.netY = 0) =>
        (velocity = Origin /\ rotationVelocity = 0)

\* the bounds in force: the bounding box if set, otherwise the map bounds
InBounds(v) ==
    IF boundingBox.set
    THEN /\ boundingBox.min.x <= v.x /\ v.x <= boundingBox.max.x
         /\ boundingBox.min.z <= v.z /\ v.z <= boundingBox.max.z
    ELSE /\ -MapBound * Milli <= v.x /\ v.x <= MapBound * Milli
         /\ -MapBound * Milli <= v.z /\ v.z <= MapBound * Milli

\* C17: starting from an in-bounds pose, after every handlePointerMove() while
\* dragging and after every applyMomentum() the target X and Z and the camera
\* X and Z lie within the configured bounds, and the clamping step never
\* changes a Y coordinate.
BoundaryClamping ==
    /\ InBounds(cameraPosition) /\ InBounds(target)
    /\ clampToMapBoundaries(Drag, boundingBox).position.y = cameraPosition.y
    /\ clampToMapBoundaries(Drag, boundingBox).target.y = target.y

\* momentum has carried the camera to the map bound and still points outward
BoundaryClampingWitness ==
    /\ gesture.op = "applyMomentum"
    /\ ~boundingBox.set
    /\ cameraPosition.z = MapBound * Milli
    /\ target.z = MapBound * Milli
    /\ velocity.z > 0

\* C16: with friction < 1 and positive stop thresholds, from any pan and
\* rotation velocity, repeated applyMomentum() calls with no drag in progress
\* reach exactly zero pan velocity and exactly zero rotation velocity after
\* finitely many frames, and every later applyMomentum() leaves camera
\* position and target unchanged.
MomentumTerminates ==
    /\ <>[](velocity = Origin /\ rotationVelocity = 0)
    /\ [][(velocity = Origin /\ rotationVelocity = 0) =>
              (cameraPosition' = cameraPosition /\ target' = target)]_vars

\* momentum has run out after carrying the camera and turning the target
MomentumTerminatesWitness ==
    /\ gesture.op = "applyMomentum"
    /\ velocity = Origin /\ rotationVelocity = 0
    /\ cameraPosition # baseCameraPosition
    /\ target.x # cameraPosition.x
    /\ dragConfig.friction < 100
    /\ dragConfig.velocityThreshold > 0 /\ dragConfig.rotationThreshold > 0

-----------------------------------------------------------------------------
(* Claims about the easing factor *)

\* C18: for every current value between min and max (max > min) and either
\* direction, calculateGeneric() returns a value in [0,1] that is monotonically
\* non-decreasing in the distance from the boundary approached, is 0 at that
\* boundary, is 1 outside the soft zone and 1 - (1 - t)^4 inside it; for a
\* degenerate range (max <= min) it returns 1.
EasingFactorShape ==
    LET lo == easing.minValue
        hi == easing.maxValue
        zone == easing.softBoundaryZone
        Distance(v) == IF easing.movingTowardsMin THEN v - lo ELSE hi - v
        Factor(v) == calculateGeneric(v, lo, hi, easing.movingTowardsMin, zone)
        d == Distance(easing.currentValue)
        soft == (hi - lo) * zone.num      \* the soft zone's size, times zone.den
        t == d * zone.den                 \* t = d / soft zone's size, times soft
    IN easing.called =>
           IF hi > lo
           THEN (lo <= easing.currentValue /\ easing.currentValue <= hi) =>
                    /\ 0 <= easing.value.num /\ easing.value.num <= easing.value.den
                    /\ \A v \in lo..hi, w \in lo..hi :
                           Distance(v) <= Distance(w) => FracLeq(Factor(v), Factor(w))
                    /\ d = 0 => easing.value.num = 0
                    /\ t >= soft => easing.value.num = easing.value.den
                    /\ t < soft =>
                           (easing.value.den - easing.value.num) * soft * soft * soft * soft
                               = easing.value.den * (soft - t) * (soft - t) * (soft - t) * (soft - t)
           ELSE easing.value.num = easing.value.den

\* a call approaching the maximum, strictly inside the soft zone
EasingFactorWitness ==
    /\ easing.called
    /\ ~easing.movingTowardsMin
    /\ easing.minValue < easing.currentValue
    /\ easing.currentValue < easing.maxValue
    /\ 0 < easing.value.num /\ easing.value.num < easing.value.den

-----------------------------------------------------------------------------
(* Claims about unknown names *)

\* C20: focusPOI() with an unknown POI id, applyCameraPreset() with an unknown
\* preset name and highlightPOI() with an unknown POI id do not throw and
\* leave the camera pose, the target and the highlight state as they were.
UnknownIdentifiersAreNoOps ==
    (lastCall.op \in {"focusPOI", "applyCameraPreset", "highlightPOI"}
         /\ ~lastCall.known) =>
        /\ ~lastCall.threw
        /\ cameraPosition = lastCall.posBefore
        /\ cameraDirection = lastCall.dirBefore
        /\ target = lastCall.targetBefore
        /\ highlightedPOI = lastCall.highlightBefore
        /\ highlightedMeshes = lastCall.meshesBefore

-----------------------------------------------------------------------------
(* Claims about the interaction manager's listeners *)

\* C21: onInterrupt is invoked only when input is observed while an animated
\* state is active, and at most once per user gesture (a touch producing a
\* pointer-down and a touch-start, or the wheel events of one scroll, do not
\* invoke it again); a pointer-down with a non-left button never invokes it.
InterruptOncePerGesture ==
    /\ gesture.onInterrupts <= 1
    /\ ~gesture.idleInvoked
    /\ ~gesture.otherButtonInvoked

-----------------------------------------------------------------------------
(* Claims about the idle rotation *)

\* C22: when a paused idle rotation is resumed, the first camera position
\* written by updateIdleRotation() equals the camera position at the moment of
\* the resume, whatever rotation time was accumulated before the pause.
ResumeWithoutSnap ==
    lastCall.op = "resumeIdleRotation" => frame.animated = lastCall.posBefore

\* C23: an idle rotation paused by a user interaction resumes once no
\* interaction has occurred for the inactivity delay and moves the camera
\* again; while the user is interacting it never moves the camera.
IdleRotationResumes ==
    /\ (lastCall.op \in {"update", "resumeIdleRotation"}
            /\ idleRotation.isActive /\ idleRotation.isPaused) =>
           clock - gesture.lastInputTime <= ResumeDelayMs
    /\ (lastCall.op \in {"update", "resumeIdleRotation"}
            /\ lastCall.interactingBefore) =>
           "idle" \notin frame.writers

-----------------------------------------------------------------------------
(* Claims about the drag velocities *)

\* the rotation velocity a pointer move from the present state aims at
targetRotationVelocity(x) ==
    TDiv((x - lastMouseX) * RotateSensitivity * edgeEasing(cameraPosition, boundingBox),
         EaseQuartDen)

\* the pan velocity a pointer move from the present state aims at
targetVelocity(y) ==
    forwardScaled(cameraDirection,
                  TDiv((y - lastMouseY) * PanSensitivityMilli
                           * edgeEasing(cameraPosition, boundingBox),
                       EaseQuartDen))

\* current + (aim - current) * smoothingFactor
smoothed(current, aim) == current + TDiv(aim - current, SmoothingDen)

\* C24: a pointer move while dragging blends both the rotation velocity and
\* the pan velocity towards the move's target by the smoothing factor, so
\* neither grows beyond the larger of its former magnitude and the target's;
\* no other drag operation makes a velocity grow.
VelocityNeverAccumulates ==
    [][IF gesture'.op = "drag"
       THEN /\ rotationVelocity' =
                   smoothed(rotationVelocity, targetRotationVelocity(lastMouseX'))
            /\ velocity'.x = smoothed(velocity.x, targetVelocity(lastMouseY').x)
            /\ velocity'.z = smoothed(velocity.z, targetVelocity(lastMouseY').z)
            /\ Abs(rotationVelocity') <=
                   Max(Abs(rotationVelocity), Abs(targetRotationVelocity(lastMouseX')))
            /\ Abs(velocity'.x) <= Max(Abs(velocity.x), Abs(targetVelocity(lastMouseY').x))
            /\ Abs(velocity'.z) <= Max(Abs(velocity.z), Abs(targetVelocity(lastMouseY').z))
       ELSE /\ Abs(rotationVelocity') <= Abs(rotationVelocity)
            /\ Abs(velocity'.x) <= Abs(velocity.x)
            /\ Abs(velocity'.z) <= Abs(velocity.z)]_vars

-----------------------------------------------------------------------------
(* Claims about restarting the tour *)

\* C26: a tour started with start(cb), also after a stop(), proceeds: when its
\* start timer has fired and the driver has visited the first POI of a longer
\* sequence, scheduleNext() has scheduled the second POI, so a tour timer is
\* pending and the tour is enabled.
RestartKeepsRunning ==
    (lastFire.kind = "start" /\ Len(poiSequence) > 1) =>
        /\ enabled
        /\ timeout \in TimerIds
        /\ timers[timeout].kind = "next"

\* C27: isWaiting() is true exactly when a tour timer (initial delay,
\* inter-POI delay, completion pause or resume grace delay) is pending; in
\* particular it is false once stop() or dispose() has returned.
WaitingTracksTimer ==
    /\ isWaiting <=> (\E i \in Pending(timers) : timers[i].kind \in TourKinds)
    /\ disposed => ~isWaiting

-----------------------------------------------------------------------------
(* Claims about the advanced controller *)

\* C28: whenever enableAdvanced() has resolved to true an advanced controller
\* is installed, and the update() that follows drives it (or discards it,
\* should it throw); this holds after an earlier advanced controller was
\* discarded by the error fallback, too.
EnableAdvancedReportsTruth ==
    /\ []((lastCall.op = "enableAdvanced" /\ lastCall.ret) => controls.cameraControls)
    /\ [][(lastCall.op = "enableAdvanced" /\ lastCall.ret /\ lastCall'.op = "update") =>
              (frame'.threw \/ frame'.drove = "advanced")]_vars

-----------------------------------------------------------------------------
(* Claims about dragging at the bounding box *)

\* the drag state a pointer move to (x, y) with the primary button held
\* leaves, a drag being in progress
dragged(x, y) ==
    handlePointerMove([Drag EXCEPT !.isDragging = TRUE], x, y, 1, boundingBox, dragConfig)

\* C29: with a bounding box set, in every state reached through drags and
\* momentum (the camera clamped onto an edge of the box included) some
\* pointer move while dragging changes the target or leaves a non-zero
\* velocity.
DragNeverInert ==
    boundingBox.set =>
        \E x \in PointerXs, y \in PointerYs :
            \/ dragged(x, y).target # target
            \/ dragged(x, y).velocity # Origin
            \/ dragged(x, y).rotationVelocity # 0

-----------------------------------------------------------------------------
(* Claims about the highlights *)

\* C30: after clearHighlights() has returned, getHighlightedPOI() is null and
\* no mesh carries the highlight material, whatever highlightPOI() calls came
\* before (one that hit no mesh included); a POI is recorded as highlighted
\* only as the single value of highlightedPOI.
HighlightsClearedCompletely ==
    /\ lastCall.op = "clearHighlights" =>
           /\ highlightedPOI = "null"
           /\ highlightedMeshes = 0
    /\ highlightedPOI \in POIs \cup {"null"}

====
